---- MODULE Spec2Model ----
(***************************************************************************)
(* Model of the random-bit generators (lib/entropy.ts and the copies in    *)
(* src/modules/complexity.ts) and of the statistical assessor              *)
(* (lib/entropy.ts Stats, src/utils/statistics.ts Statistics).             *)
(*                                                                         *)
(* TLC integers are 32-bit signed, while the program computes on unsigned  *)
(* 32-bit words, 64-bit BigInts and IEEE doubles holding integers up to    *)
(* 2^62.  A number is therefore kept at its full width as a little-endian  *)
(* tuple of bytes (limb 1 is the least significant byte): a 32-bit word is *)
(* 4 limbs, a 64-bit word 8 limbs.  A signed JavaScript number that holds  *)
(* an integer is a record [neg, mag].                                      *)
(***************************************************************************)
EXTENDS Integers, Sequences, FiniteSets, TLC

(***************************************************************************)
(* Limb arithmetic                                                         *)
(***************************************************************************)
Limb(x, i) == IF i >= 1 /\ i <= Len(x) THEN x[i] ELSE 0

\* the function f on 1..n as a tuple of values: every operator below
\* returns its limbs computed, not a rule that recomputes them on each use
Tup(f) == f \o << >>

\* x mod 256^w as exactly w limbs (zero-extended or truncated)
Ext(x, w) == Tup([i \in 1..w |-> Limb(x, i)])

Zeros(w) == Tup([i \in 1..w |-> 0])

RECURSIVE FromInt(_, _)
\* the small natural n (< 2^31) as w limbs
FromInt(n, w) == IF w = 0 THEN << >> ELSE <<n % 256>> \o FromInt(n \div 256, w - 1)

RECURSIVE IsZeroFrom(_, _)
IsZeroFrom(x, i) == IF i > Len(x) THEN TRUE ELSE x[i] = 0 /\ IsZeroFrom(x, i + 1)

IsZero(x) == IsZeroFrom(x, 1)

RECURSIVE CmpFrom(_, _, _)
\* -1, 0, 1: the order of x and y read from limb i downwards
CmpFrom(x, y, i) ==
  IF i = 0 THEN 0
  ELSE IF Limb(x, i) < Limb(y, i) THEN -1
  ELSE IF Limb(x, i) > Limb(y, i) THEN 1
  ELSE CmpFrom(x, y, i - 1)

Cmp(x, y) == CmpFrom(x, y, IF Len(x) > Len(y) THEN Len(x) ELSE Len(y))

Lt(x, y) == Cmp(x, y) = -1

Eq(x, y) == Cmp(x, y) = 0

RECURSIVE AddC(_, _, _, _, _)
AddC(x, y, i, w, c) ==
  IF i > w THEN << >>
  ELSE LET s == Limb(x, i) + Limb(y, i) + c
       IN  <<s % 256>> \o AddC(x, y, i + 1, w, s \div 256)

\* (x + y) mod 256^w
AddW(x, y, w) == AddC(x, y, 1, w, 0)

\* (256^w - 1) - x: the bitwise complement on w limbs
NotW(x, w) == Tup([i \in 1..w |-> 255 - Limb(x, i)])

\* (-x) mod 256^w: two's complement
NegW(x, w) == AddW(NotW(x, w), <<1>>, w)

\* (x - y) mod 256^w = x + ~y + 1
SubW(x, y, w) == AddC(x, NotW(y, w), 1, w, 1)

RECURSIVE TopLimb(_, _)
\* the place of the highest limb of x that is not zero, from place i down
TopLimb(x, i) == IF i = 0 \/ x[i] # 0 THEN i ELSE TopLimb(x, i - 1)

RECURSIVE ColSum(_, _, _, _, _)
\* sum over i..hi of x[i] * y[k+1-i]: column k of the schoolbook product
ColSum(x, y, k, i, hi) ==
  IF i > hi THEN 0 ELSE x[i] * y[k + 1 - i] + ColSum(x, y, k, i + 1, hi)

RECURSIVE MulC(_, _, _, _, _, _, _)
\* lx, ly: the limbs of x and y in use
MulC(x, y, lx, ly, k, w, c) ==
  IF k > w THEN << >>
  ELSE LET lo == IF k + 1 - ly > 1 THEN k + 1 - ly ELSE 1
           hi == IF k < lx THEN k ELSE lx
           s  == ColSum(x, y, k, lo, hi) + c
       IN  <<s % 256>> \o MulC(x, y, lx, ly, k + 1, w, s \div 256)

\* (x * y) mod 256^w
MulW(x, y, w) == MulC(x, y, TopLimb(x, Len(x)), TopLimb(y, Len(y)), 1, w, 0)

RECURSIVE Pow2(_)
Pow2(n) == IF n = 0 THEN 1 ELSE 2 * Pow2(n - 1)

\* (x * 2^n) mod 256^w
ShlW(x, n, w) ==
  LET q == n \div 8
      r == n % 8
  IN  Tup([i \in 1..w |-> ((Limb(x, i - q) * Pow2(r)) % 256)
                          + (Limb(x, i - q - 1) \div Pow2(8 - r))])

\* floor(x / 2^n) on w limbs
ShrW(x, n, w) ==
  LET q == n \div 8
      r == n % 8
  IN  Tup([i \in 1..w |-> (Limb(x, i + q) \div Pow2(r))
                          + ((Limb(x, i + q + 1) * Pow2(8 - r)) % 256)])

RECURSIVE BitLenFrom(_, _)
RECURSIVE BitLenByte(_)
BitLenByte(b) == IF b = 0 THEN 0 ELSE 1 + BitLenByte(b \div 2)

BitLenFrom(x, i) ==
  IF i = 0 THEN 0
  ELSE IF x[i] # 0 THEN 8 * (i - 1) + BitLenByte(x[i])
  ELSE BitLenFrom(x, i - 1)

\* number of significant bits of x (0 for zero)
BitLen(x) == BitLenFrom(x, Len(x))

\* bit n (0 = least significant) of x
BitAt(x, n) == (Limb(x, n \div 8 + 1) \div Pow2(n % 8)) % 2

(***************************************************************************)
(* Bitwise operators, nibble by nibble                                     *)
(***************************************************************************)
XorBit(a, b, k) == ((((a \div k) % 2) + ((b \div k) % 2)) % 2) * k

AndBit(a, b, k) == (((a \div k) % 2) * ((b \div k) % 2)) * k

NibXor == [a \in 0..15 |-> [b \in 0..15 |->
             XorBit(a, b, 1) + XorBit(a, b, 2) + XorBit(a, b, 4) + XorBit(a, b, 8)]]

NibAnd == [a \in 0..15 |-> [b \in 0..15 |->
             AndBit(a, b, 1) + AndBit(a, b, 2) + AndBit(a, b, 4) + AndBit(a, b, 8)]]

ByteXor(a, b) == NibXor[a \div 16][b \div 16] * 16 + NibXor[a % 16][b % 16]

ByteAnd(a, b) == NibAnd[a \div 16][b \div 16] * 16 + NibAnd[a % 16][b % 16]

ByteOr(a, b) == ByteXor(a, b) + ByteAnd(a, b)

XorW(x, y, w) == Tup([i \in 1..w |-> ByteXor(Limb(x, i), Limb(y, i))])

AndW(x, y, w) == Tup([i \in 1..w |-> ByteAnd(Limb(x, i), Limb(y, i))])

OrW(x, y, w) == Tup([i \in 1..w |-> ByteOr(Limb(x, i), Limb(y, i))])

(***************************************************************************)
(* JavaScript numbers that hold integers                                   *)
(***************************************************************************)
\* limbs kept for the magnitude of a number: every value the program
\* computes here is below 2^64, one limb more holds a rounding carry
NumW == 9

Num(neg, mag) == [neg |-> neg /\ ~IsZero(mag), mag |-> Ext(mag, NumW)]

Pos(mag) == Num(FALSE, mag)

\* the value of n rounded down to a multiple of 2^sh, or the multiple above
RoundPick(n, sh, down, up) ==
  Num(n.neg, IF up THEN AddW(down, FromInt(Pow2(sh), NumW), NumW) ELSE down)

\* n with its lowest sh bits (their value is r) rounded away: up when r is
\* above the half, or is the half and the bit above is odd
RoundLow(n, sh, r) ==
  RoundPick(n, sh, SubW(n.mag, FromInt(r, NumW), NumW),
            r > Pow2(sh - 1) \/ (r = Pow2(sh - 1) /\ BitAt(n.mag, sh) = 1))

RoundBits(n, L) ==
  IF L <= 53 THEN n
  ELSE RoundLow(n, L - 53,
                (n.mag[1] + 256 * n.mag[2] + 65536 * n.mag[3]) % Pow2(L - 53))

\* round-to-nearest-even to the 53 significant bits of an IEEE double
RoundF64(n) == RoundBits(n, BitLen(n.mag))

SAdd(a, b) ==
  IF a.neg = b.neg THEN Num(a.neg, AddW(a.mag, b.mag, NumW))
  ELSE IF Lt(a.mag, b.mag) THEN Num(b.neg, SubW(b.mag, a.mag, NumW))
  ELSE Num(a.neg, SubW(a.mag, b.mag, NumW))

\* exact for |a * b| < 256^NumW
SMul(a, b) == Num(a.neg # b.neg, MulW(a.mag, b.mag, NumW))

\* a + b and a * b on doubles
F64Add(a, b) == RoundF64(SAdd(a, b))

F64Mul(a, b) == RoundF64(SMul(a, b))

\* n >>> 0, and a store into a Uint32Array: n mod 2^32
ToUint32(n) == IF n.neg THEN NegW(Ext(n.mag, 4), 4) ELSE Ext(n.mag, 4)

\* the number a 32-bit pattern stands for after & | ^ << (ToInt32)
ToInt32(w) == IF w[4] >= 128 THEN Num(TRUE, NegW(w, 4)) ELSE Num(FALSE, w)

\* n % 2^32: the remainder keeps the sign of the dividend
Rem32(n) == Num(n.neg, Ext(n.mag, 4))

\* a value returned by next(): the quotient of a number by a positive number
Ratio(n, den) == [neg |-> n.neg, num |-> n.mag, den |-> den]

\* 0 <= v < 1
InUnit(v) == ~v.neg /\ Lt(v.num, v.den)

RECURSIVE PackBits(_, _, _)
\* limbs k..w of the number whose bits, most significant first, are qb
PackBits(qb, k, w) ==
  IF k > w THEN << >>
  ELSE LET n    == Len(qb)
           B(j) == IF 8 * (k - 1) + j < n THEN qb[n - (8 * (k - 1) + j)] ELSE 0
       IN  <<B(0) + 2 * B(1) + 4 * B(2) + 8 * B(3)
             + 16 * B(4) + 32 * B(5) + 64 * B(6) + 128 * B(7)>>
           \o PackBits(qb, k + 1, w)

\* one step of schoolbook division: r2 is twice the remainder plus the
\* next bit of the dividend, qb the quotient bits so far
DivPick(d, w, r2, qb) ==
  IF Lt(r2, d) THEN <<r2, Append(qb, 0)>>
  ELSE <<SubW(r2, d, w), Append(qb, 1)>>

\* the step at bit i of n: st is <<the remainder, the quotient bits>>
DivStep(n, d, i, st) ==
  DivPick(d, Len(d) + 1, AddC(st[1], st[1], 1, Len(d) + 1, BitAt(n, i)), st[2])

RECURSIVE DivLoop(_, _, _, _, _)
\* the steps for bits hi down to lo of n, in that order (the range is
\* halved so that the evaluation stack stays shallow)
DivLoop(n, d, hi, lo, st) ==
  IF hi < lo \/ Len(st[2]) > 8 * Len(n) THEN st
  ELSE IF hi = lo THEN DivStep(n, d, hi, st)
  ELSE DivLoop(n, d, (hi + lo + 1) \div 2 - 1, lo,
               DivLoop(n, d, hi, (hi + lo + 1) \div 2, st))

DivResult(st, w) == <<PackBits(st[2], 1, w), st[1]>>

\* <<floor(n / d), n mod d>> for naturals n, d with d > 0
DivMod(n, d) ==
  DivResult(DivLoop(n, d, BitLen(n) - 1, 0, <<Zeros(Len(d) + 1), << >> >>), Len(n))

\* the double [m, e] = m * 2^-e nearest to a quotient: down is the
\* quotient cut to 53 bits, r the bits cut off, half their midpoint,
\* sticky whether the division left a remainder; ties go to even
F64Pick(down, r, half, sticky, e) ==
  [m |-> IF r > half \/ (r = half /\ (sticky \/ down[1] % 2 = 1))
         THEN AddW(down, <<1>>, NumW) ELSE down,
   e |-> e]

\* qr = <<floor(n * 2^s / d), remainder>>, of which sh bits are cut off
F64Cut(qr, s, sh) ==
  F64Pick(ShrW(qr[1], sh, NumW), qr[1][1] % Pow2(sh), Pow2(sh - 1),
          ~IsZero(qr[2]), s - sh)

F64Quot(qr, s) == F64Cut(qr, s, BitLen(qr[1]) - 53)

\* the quotient is computed to 55 or 56 bits
F64DivAt(n, d, s) == F64Quot(DivMod(ShlW(Ext(n, 2 * NumW), s, 2 * NumW), d), s)

\* the double n / d for naturals n, d with d > 0, as [m, e] standing for
\* m * 2^-e
F64Div(n, d) ==
  IF IsZero(n) THEN [m |-> Zeros(NumW), e |-> 0]
  ELSE F64DivAt(n, d, 55 + BitLen(d) - BitLen(n))

\* the floor of the double p * 2^-e, negated when neg; fl is p >> e
FloorSign(p, fl, e, neg) ==
  IF neg /\ ~Eq(ShlW(fl, e, NumW), p) THEN Num(TRUE, AddW(fl, <<1>>, NumW))
  ELSE Num(neg, fl)

FloorPick(p, e, neg) == FloorSign(p, ShrW(p, e, NumW), e, neg)

\* q is the double v, k the integer: the double product, then the floor
FloorAt(q, k, neg) == FloorPick(F64Mul(Pos(q.m), Pos(k.mag)).mag, q.e, neg)

\* Math.floor(v * k) for the value v returned by next() and the integer k
\* (a Num, |k| < 2^18): the double v, the double product, then the floor
FloorMul(v, k) == FloorAt(F64Div(v.num, v.den), k, v.neg # k.neg)

(***************************************************************************)
(* LCG (lib/entropy.ts and src/modules/complexity.ts)                      *)
(***************************************************************************)
\* an optional argument: << >> when the caller passes none (undefined),
\* <<v>> when it passes v
NoSeed == << >>

LCG_a == Pos(FromInt(1664525, 4))

LCG_c == Pos(FromInt(1013904223, 4))

\* m = 0x100000000
LCG_m == <<0, 0, 0, 0, 1>>

\* the constructor with the clock mixed into an explicit seed as well:
\* (seed ?? 0) ^ Date.now() & 0xFFFFFFFF
LCGInitTimed(seed, t) ==
  ToInt32(XorW(IF seed = NoSeed THEN Zeros(4) ELSE ToUint32(seed[1]), Ext(t, 4), 4))

\* constructor: seed ?? Date.now() & 0xFFFFFFFF, where & binds tighter
\* than ??: an explicit seed is stored as given, the time is read as a
\* signed 32-bit integer
LCGInit(seed, t) == IF seed = NoSeed THEN ToInt32(Ext(t, 4)) ELSE seed[1]

\* the step with | 0 in place of >>> 0: a signed 32-bit state
LCGStepSigned(state) == ToInt32(ToUint32(F64Add(F64Mul(LCG_a, state), LCG_c)))

\* lib: this.state = (this.a * this.state + this.c) >>> 0
LCGStep(state) == Pos(ToUint32(F64Add(F64Mul(LCG_a, state), LCG_c)))

\* setState that drops the lowest bit: state >>> 1
LCGSetStateHalf(state) == Pos(ShrW(ToUint32(state), 1, 4))

\* lib setState(state): this.state = state >>> 0
LCGSetState(state) == Pos(ToUint32(state))

\* modules: this.state = (this.a * this.state + this.c) % this.m
LCGmStep(state) == Rem32(F64Add(F64Mul(LCG_a, state), LCG_c))

\* return this.state / this.m
LCGOut(state) == Ratio(state, LCG_m)

(***************************************************************************)
(* MersenneTwister (lib/entropy.ts)                                        *)
(***************************************************************************)
MT_N == 624

MT_M == 397

MT_F == Pos(<<101, 137, 7, 108>>)           \* 0x6c078965

MT_UPPER == <<0, 0, 0, 128>>                \* 0x80000000

MT_LOWER == <<255, 255, 255, 127>>          \* 0x7fffffff

MT_MATRIX_A == <<223, 176, 8, 153>>         \* 0x9908b0df

MT_B == <<128, 86, 44, 157>>                \* 0x9d2c5680

MT_C == <<0, 0, 198, 239>>                  \* 0xefc60000

U32_MAX == <<255, 255, 255, 255>>           \* 0xFFFFFFFF

\* element i of a JavaScript array kept as a tuple (index 0 at place 1)
At(arr, i) == arr[i + 1]

\* ((0x6c078965 * (prev ^ (prev >>> 30))) + i) >>> 0: the xor is a signed
\* 32-bit integer, the product and the sum are doubles
MTSeedWord(prev, i) ==
  ToUint32(F64Add(F64Mul(MT_F, ToInt32(XorW(prev, ShrW(prev, 30, 4), 4))),
                  Pos(FromInt(i, 4))))

RECURSIVE MTSeedLoop(_, _, _)
\* for (i = lo; i < hi; i++) mt[i] = ...: mt is the tuple of the words
\* 0..lo-1 (word j at place j+1).  The range is halved so that the
\* evaluation stack stays shallow; the words are computed in index order.
MTSeedLoop(mt, lo, hi) ==
  IF lo >= hi \/ Len(mt) >= hi THEN mt
  ELSE IF hi = lo + 1 THEN Append(mt, MTSeedWord(mt[lo], lo))
  ELSE MTSeedLoop(MTSeedLoop(mt, lo, (lo + hi) \div 2), (lo + hi) \div 2, hi)

\* seed(s): the 624 words; word i of the array is At(mt, i)
MTSeed(s) == MTSeedLoop(<<ToUint32(s)>>, 1, MT_N)

\* constructor: this.seed(seed ?? Date.now())
\* seed(s) that leaves the cursor where it was
MTReseedKeep(st, s) == [mt |-> MTSeed(s), index |-> st.index]

\* seed(s) on an object in state st: all 624 words are written from s and
\* this.index = 624
MTReseed(st, s) == [mt |-> MTSeed(s), index |-> MT_N]

MTInit(seed, t) == MTSeed(IF seed = NoSeed THEN Pos(t) ELSE seed[1])

\* mt[i] = mt[(i + 397) % 624] ^ (y >>> 1); if (y & 1) mt[i] ^= 0x9908b0df
MTTwistStore(mt, i, y, v) ==
  [mt EXCEPT ![i + 1] = IF y[1] % 2 = 1 THEN XorW(v, MT_MATRIX_A, 4) ELSE v]

MTTwistMix(mt, i, y) ==
  MTTwistStore(mt, i, y, XorW(At(mt, (i + MT_M) % MT_N), ShrW(y, 1, 4), 4))

\* one pass of the loop body of twist(), in place at index i
MTTwistAt(mt, i) ==
  MTTwistMix(mt, i, OrW(AndW(At(mt, i), MT_UPPER, 4),
                        AndW(At(mt, (i + 1) % MT_N), MT_LOWER, 4), 4))

RECURSIVE MTTwistLoop(_, _, _)
\* for (i = lo; i < hi; i++): the passes run in index order, each on the
\* array the passes before it left (the range is halved as in MTSeedLoop)
MTTwistLoop(mt, lo, hi) ==
  IF lo >= hi \/ Len(mt) < hi THEN mt
  ELSE IF hi = lo + 1 THEN MTTwistAt(mt, lo)
  ELSE MTTwistLoop(MTTwistLoop(mt, lo, (lo + hi) \div 2), (lo + hi) \div 2, hi)

MTTwist(mt) == MTTwistLoop(mt, 0, MT_N)

\* y ^= y >>> n
MTShiftR(y, n) == XorW(y, ShrW(y, n, 4), 4)

\* y ^= (y << n) & mask
MTShiftL(y, n, mask) == XorW(y, AndW(ShlW(y, n, 4), mask, 4), 4)

MTTemper(y) == MTShiftR(MTShiftL(MTShiftL(MTShiftR(y, 11), 7, MT_B), 15, MT_C), 18)

\* let y = this.mt[this.index++], tempered
MTTake(mt, index) ==
  [mt |-> mt, index |-> index + 1, raw |-> MTTemper(At(mt, index))]

\* next(): the state after the draw and the raw tempered word
\* the twist one draw early: if (this.index >= 623)
MTStepEarly(mt, index) ==
  IF index >= MT_N - 1 THEN MTTake(MTTwist(mt), 0) ELSE MTTake(mt, index)

MTStep(mt, index) ==
  IF index >= MT_N THEN MTTake(MTTwist(mt), 0) ELSE MTTake(mt, index)

\* return (y >>> 0) / 0xFFFFFFFF
MTOut(raw) == Ratio(Pos(raw), U32_MAX)

(***************************************************************************)
(* ChaCha20 (lib/entropy.ts)                                               *)
(***************************************************************************)
CC_K0 == <<101, 120, 112, 97>>              \* 0x61707865
CC_K1 == <<110, 100, 32, 51>>               \* 0x3320646e
CC_K2 == <<50, 45, 98, 121>>                \* 0x79622d32
CC_K3 == <<116, 101, 32, 107>>              \* 0x6b206574

\* key[i*4] | key[i*4+1] << 8 | key[i*4+2] << 16 | key[i*4+3] << 24,
\* stored into a Uint32Array: the four bytes, least significant first
CCKeyWord(key, i) == <<At(key, 4 * i), At(key, 4 * i + 1),
                       At(key, 4 * i + 2), At(key, 4 * i + 3)>>

\* constructor at time t (both reads of the clock in the same
\* millisecond): key = seed ?? new Entropy().getBytes(32), where ent is
\* the 32 bytes the entropy pool gives; state[14] = Date.now() & 0xFFFFFFFF,
\* state[15] = (Date.now() / 0x100000000) & 0xFFFFFFFF
CCInitKey(key, t) ==
  [state  |-> <<CC_K0, CC_K1, CC_K2, CC_K3>>
              \o Tup([i \in 1..8 |-> CCKeyWord(key, i - 1)])
              \o <<Zeros(4), Zeros(4), Ext(t, 4), ShrW(t, 32, 4)>>,
   buffer |-> Zeros(64),
   pos    |-> 64]

CCInit(seed, t, ent) == CCInitKey(IF seed = NoSeed THEN ent ELSE seed[1], t)

\* ((x << n) | (x >>> (32 - n))) >>> 0
CCRotl(x, n) == OrW(ShlW(x, n, 4), ShrW(x, 32 - n, 4), 4)

\* x[a] = (x[a] + x[b]) >>> 0
CCAdd(x, a, b) == [x EXCEPT ![a + 1] = AddW(At(x, a), At(x, b), 4)]

\* x[d] = this.rotl(x[d] ^ x[a], n)
CCXorRotl(x, d, a, n) == [x EXCEPT ![d + 1] = CCRotl(XorW(At(x, d), At(x, a), 4), n)]

CCQuarterRound(x, a, b, c, d) ==
  CCXorRotl(CCAdd(CCXorRotl(CCAdd(CCXorRotl(CCAdd(CCXorRotl(CCAdd(
    x, a, b), d, a, 16), c, d), b, c, 12), a, b), d, a, 8), c, d), b, c, 7)

\* the index quadruples of the loop body of block(): four column and four
\* diagonal quarter rounds
CC_QUARTERS ==
  <<<<0, 4, 8, 12>>, <<1, 5, 9, 13>>, <<2, 6, 10, 14>>, <<3, 7, 11, 15>>,
    <<0, 5, 10, 15>>, <<1, 6, 11, 12>>, <<2, 7, 8, 13>>, <<3, 4, 9, 14>> >>

CCQuarterAt(x, q) == CCQuarterRound(x, q[1], q[2], q[3], q[4])

RECURSIVE CCQuarters(_, _)
\* the quarter rounds k..8 of one pass, in order
CCQuarters(x, k) ==
  IF k > Len(CC_QUARTERS) \/ Len(x) # 16 THEN x
  ELSE CCQuarters(CCQuarterAt(x, CC_QUARTERS[k]), k + 1)

\* one pass of the loop body of block()
CCDoubleRound(x) == CCQuarters(x, 1)

CC_ROUNDS == 10

RECURSIVE CCRounds(_, _)
CCRounds(x, n) ==
  IF n = 0 \/ Len(x) # 16 THEN x ELSE CCRounds(CCDoubleRound(x), n - 1)

RECURSIVE CCSerialize(_, _, _)
\* buffer[4i .. 4i+3] = the bytes of (x[i] + state[i]) >>> 0, for i >= k
CCSerialize(x, state, k) ==
  IF k = 16 THEN << >>
  ELSE AddW(At(x, k), At(state, k), 4) \o CCSerialize(x, state, k + 1)

\* the count without the carry into word 13
CCCountLow(state, c12) == [state EXCEPT ![13] = c12]

\* this.state[12]++; if (this.state[12] === 0) this.state[13]++
CCCount(state, c12) ==
  [state EXCEPT ![13] = c12,
                ![14] = IF IsZero(c12) THEN AddW(state[14], <<1>>, 4) ELSE state[14]]

\* the rounds run on this.state instead of the copy x
CCBlockInPlace(g) ==
  [state  |-> CCCount(CCRounds(g.state, CC_ROUNDS), AddW(At(g.state, 12), <<1>>, 4)),
   buffer |-> CCSerialize(CCRounds(g.state, CC_ROUNDS), g.state, 0),
   pos    |-> 0]

\* block(): x = new Uint32Array(this.state) takes the rounds; fill the
\* buffer, count the block
CCBlock(g) ==
  [state  |-> CCCount(g.state, AddW(At(g.state, 12), <<1>>, 4)),
   buffer |-> CCSerialize(CCRounds(g.state, CC_ROUNDS), g.state, 0),
   pos    |-> 0]

\* return this.buffer[this.pos++]
CCTake(g) == [g |-> [g EXCEPT !.pos = g.pos + 1], byte |-> At(g.buffer, g.pos)]

\* the refill one byte early: if (this.pos >= 63)
CCNextByteEarly(g) == CCTake(IF g.pos >= 63 THEN CCBlock(g) ELSE g)

\* nextByte(): the generator after the call and the byte returned
CCNextByte(g) == CCTake(IF g.pos >= 64 THEN CCBlock(g) ELSE g)

\* result[i] = the byte returned
CCPut(bytes, r) == [g |-> r.g, bytes |-> Append(bytes, r.byte)]

RECURSIVE CCBytesLoop(_, _, _)
\* for (i = lo; i < hi; i++) result[i] = this.nextByte(): st is the
\* generator and the bytes 0..lo-1 (the range is halved as in MTSeedLoop)
CCBytesLoop(st, lo, hi) ==
  IF lo >= hi \/ Len(st.bytes) >= hi THEN st
  ELSE IF hi = lo + 1 THEN CCPut(st.bytes, CCNextByte(st.g))
  ELSE CCBytesLoop(CCBytesLoop(st, lo, (lo + hi) \div 2), (lo + hi) \div 2, hi)

\* nextBytes(count) for count >= 0
CCNextBytes(g, count) == CCBytesLoop([g |-> g, bytes |-> << >>], 0, count)

CCWord(r) == [g |-> r.g, raw |-> r.bytes]

\* next(): ((b[0] | b[1] << 8 | b[2] << 16 | b[3] << 24) >>> 0) / 0xFFFFFFFF
CCStep(g) == CCWord(CCNextBytes(g, 4))

CCOut(raw) == Ratio(Pos(raw), U32_MAX)

(***************************************************************************)
(* ChaCha20CSPRNG (src/modules/complexity.ts)                              *)
(***************************************************************************)
\* (bytes[offset] | bytes[offset + 1] << 8 | bytes[offset + 2] << 16
\*  | bytes[offset + 3] << 24) >>> 0
CSBytesToWord(bytes, offset) ==
  <<At(bytes, offset), At(bytes, offset + 1), At(bytes, offset + 2), At(bytes, offset + 3)>>

\* initState(key, nonce): the constants, eight key words, the counter word
\* 0 and three nonce words, the first of them in word 13
CSInitState(key, nonce) ==
  <<CC_K0, CC_K1, CC_K2, CC_K3>>
    \o Tup([i \in 1..8 |-> CSBytesToWord(key, 4 * (i - 1))])
    \o <<Zeros(4), CSBytesToWord(nonce, 0), CSBytesToWord(nonce, 4), CSBytesToWord(nonce, 8)>>

\* the constructor with a key and a nonce; counter is a bigint
CSNew(key, nonce) ==
  [state       |-> CSInitState(key, nonce),
   counter     |-> Zeros(8),
   buffer      |-> Zeros(64),
   bufferIndex |-> 64]

\* ((x << n) | (x >>> (32 - n))) >>> 0
CSRotl(x, n) == OrW(ShlW(x, n, 4), ShrW(x, 32 - n, 4), 4)

\* state[a] = (state[a] + state[b]) >>> 0
CSAdd(state, a, b) == [state EXCEPT ![a + 1] = AddW(At(state, a), At(state, b), 4)]

\* state[d] ^= state[a]; state[d] = this.rotl(state[d], n)
CSXorRotl(state, d, a, n) ==
  [state EXCEPT ![d + 1] = CSRotl(XorW(At(state, d), At(state, a), 4), n)]

\* the last rotation by 8 instead of 7
CSQuarterRoundEven(state, a, b, c, d) ==
  CSXorRotl(CSAdd(CSXorRotl(CSAdd(CSXorRotl(CSAdd(CSXorRotl(CSAdd(
    state, a, b), d, a, 16), c, d), b, c, 12), a, b), d, a, 8), c, d), b, c, 8)

CSQuarterRound(state, a, b, c, d) ==
  CSXorRotl(CSAdd(CSXorRotl(CSAdd(CSXorRotl(CSAdd(CSXorRotl(CSAdd(
    state, a, b), d, a, 16), c, d), b, c, 12), a, b), d, a, 8), c, d), b, c, 7)

\* the column rounds of one pass of generateBlock()
CS_COLUMNS == <<<<0, 4, 8, 12>>, <<1, 5, 9, 13>>, <<2, 6, 10, 14>>, <<3, 7, 11, 15>> >>

\* the diagonal rounds of one pass
CS_DIAGONALS == <<<<0, 5, 10, 15>>, <<1, 6, 11, 12>>, <<2, 7, 8, 13>>, <<3, 4, 9, 14>> >>

RECURSIVE CSQuarters(_, _, _)
\* the quarter rounds k.. of the list, in order
CSQuarters(working, list, k) ==
  IF k > Len(list) \/ Len(working) # 16 THEN working
  ELSE CSQuarters(CSQuarterRound(working, list[k][1], list[k][2], list[k][3], list[k][4]),
                  list, k + 1)

RECURSIVE CSRounds(_, _)
\* for (i..9): column rounds, then diagonal rounds
CSRounds(working, i) ==
  IF i >= CC_ROUNDS \/ Len(working) # 16 THEN working
  ELSE CSRounds(CSQuarters(working, CS_COLUMNS \o CS_DIAGONALS, 1), i + 1)

\* working[i] = (working[i] + this.state[i]) >>> 0
CSAddState(working, state) ==
  Tup([i \in 1..16 |-> AddW(working[i], state[i], 4)])

\* word >> n: the word as a signed 32-bit integer, shifted with its sign
CSShr(word, n) ==
  LET sign == IF word[4] >= 128 THEN 255 ELSE 0
  IN  ShrW(word \o <<sign, sign, sign, sign>>, n, 4)

\* word & 0xFF, (word >> 8) & 0xFF, (word >> 16) & 0xFF, (word >> 24) & 0xFF
CSWordBytes(word) ==
  <<word[1], CSShr(word, 8)[1], CSShr(word, 16)[1], CSShr(word, 24)[1]>>

RECURSIVE CSToBytes(_, _)
\* buffer[4i .. 4i+3] for the words i >= k
CSToBytes(working, k) ==
  IF k = 16 THEN << >> ELSE CSWordBytes(At(working, k)) \o CSToBytes(working, k + 1)

\* this.state[12] = Number(this.counter & 0xFFFFFFFFn)
CSSetCounter(g) == [g.state EXCEPT ![13] = Ext(g.counter, 4)]

\* generateBlock(): the rounds run on a copy of the state with the counter
\* in word 12
CSGenerateBlock(g) ==
  [state       |-> CSSetCounter(g),
   counter     |-> AddW(g.counter, <<1>>, 8),
   buffer      |-> CSToBytes(CSAddState(CSRounds(CSSetCounter(g), 0), CSSetCounter(g)), 0),
   bufferIndex |-> 0]

\* nextByte(): the generator after the call and the byte returned
CSNextByte(g) ==
  LET h == IF g.bufferIndex >= 64 THEN CSGenerateBlock(g) ELSE g
  IN  [g |-> [h EXCEPT !.bufferIndex = h.bufferIndex + 1], byte |-> At(h.buffer, h.bufferIndex)]

RECURSIVE CSBytesLoop(_, _, _)
\* for (i = lo; i < hi; i++) result[i] = this.nextByte()
CSBytesLoop(st, lo, hi) ==
  IF lo >= hi \/ Len(st.bytes) >= hi THEN st
  ELSE IF hi = lo + 1 THEN CCPut(st.bytes, CSNextByte(st.g))
  ELSE CSBytesLoop(CSBytesLoop(st, lo, (lo + hi) \div 2), (lo + hi) \div 2, hi)

\* nextBytes(count) for count >= 0
CSNextBytes(g, count) == CSBytesLoop([g |-> g, bytes |-> << >>], 0, count)

(***************************************************************************)
(* XorShift128Plus (lib/entropy.ts): 64-bit BigInt state                   *)
(***************************************************************************)
XS_TIME_MUL == <<239, 205, 171, 137, 103, 69, 35, 1>>     \* 0x123456789ABCDEFn

XS_MUL == <<45, 127, 149, 76, 45, 244, 81, 88>>           \* 0x5851F42D4C957F2Dn

U64_MAX == <<255, 255, 255, 255, 255, 255, 255, 255>>     \* 0xFFFFFFFFFFFFFFFFn

\* limbs kept for a BigInt product: the seed times both multipliers
BigW == 24

\* if (this.s0 === 0n) this.s0 = 1n, and the same for s1
\* a half kept as derived
XSKeep(h) == h

XSRepair(h) == IF IsZero(h) THEN <<1, 0, 0, 0, 0, 0, 0, 0>> ELSE h

XSHalves(s) ==
  [s0 |-> XSRepair(AndW(s, U64_MAX, 8)),
   s1 |-> XSRepair(AndW(MulW(s, XS_MUL, BigW), U64_MAX, 8))]

\* constructor: seed is a natural BigInt (limbs) or NoSeed
XSInit(seed, t) ==
  XSHalves(IF seed = NoSeed THEN MulW(t, XS_TIME_MUL, BigW) ELSE Ext(seed[1], BigW))

\* const result = (this.s1 + s0) & 0xFFFFFFFFFFFFFFFFn
XSResult(s0, n1) ==
  [s0 |-> s0, s1 |-> n1, raw |-> AndW(AddW(n1, s0, 9), U64_MAX, 8)]

\* this.s1 = s1 ^ s0 ^ (s1 >> 18n) ^ (s0 >> 5n)
XSMix(s0, a) ==
  XSResult(s0, XorW(XorW(XorW(a, s0, 8), ShrW(a, 18, 8), 8), ShrW(s0, 5, 8), 8))

\* the step with the two halves in each other's place: the shifted half is
\* this.s1 and this.s0 is mixed in
XSStepSwapped(g) ==
  [s0 |-> XSMix(g.s0, XorW(g.s1, AndW(ShlW(g.s1, 23, 11), U64_MAX, 8), 8)).s1,
   s1 |-> g.s0,
   raw |-> XSMix(g.s0, XorW(g.s1, AndW(ShlW(g.s1, 23, 11), U64_MAX, 8), 8)).raw]

\* next(): the state after the draw and the 64-bit result; s1 = this.s0,
\* s0 = this.s1, s1 ^= (s1 << 23n) & 0xFFFFFFFFFFFFFFFFn
XSStep(g) == XSMix(g.s1, XorW(g.s0, AndW(ShlW(g.s0, 23, 11), U64_MAX, 8), 8))

\* return Number(result) / 0xFFFFFFFFFFFFFFFF: both operands are rounded
\* to doubles, the literal to 2^64
XSOut(raw) == Ratio(RoundF64(Pos(raw)), RoundF64(Pos(U64_MAX)).mag)

(***************************************************************************)
(* The generators as objects: construction and the three draw operations   *)
(***************************************************************************)
Kinds == {"LCG", "LCGm", "MT", "ChaCha20", "XorShift128Plus"}

\* new K(seed) at time t: arg and born record the argument and the time
NewGen(kind, seed, t, ent) ==
  [kind |-> kind, arg |-> seed, born |-> t,
   st   |-> CASE kind = "LCG"  -> [state |-> LCGInit(seed, t)]
              [] kind = "LCGm" -> [state |-> LCGInit(seed, t)]
              [] kind = "MT"   -> [mt |-> MTInit(seed, t), index |-> MT_N]
              [] kind = "ChaCha20" -> CCInit(seed, t, ent)
              [] OTHER -> XSInit(seed, t)]

LCGNext(g, n) == [g |-> [g EXCEPT !.st = [state |-> n]], val |-> LCGOut(n)]

MTNext(g, r) ==
  [g |-> [g EXCEPT !.st = [mt |-> r.mt, index |-> r.index]], val |-> MTOut(r.raw)]

CCNext(g, r) == [g |-> [g EXCEPT !.st = r.g], val |-> CCOut(r.raw)]

XSNext(g, r) ==
  [g |-> [g EXCEPT !.st = [s0 |-> r.s0, s1 |-> r.s1]], val |-> XSOut(r.raw)]

\* next(): the object after the call and the value returned
GenNext(g) ==
  CASE g.kind = "LCG"  -> LCGNext(g, LCGStep(g.st.state))
    [] g.kind = "LCGm" -> LCGNext(g, LCGmStep(g.st.state))
    [] g.kind = "MT"   -> MTNext(g, MTStep(g.st.mt, g.st.index))
    [] g.kind = "ChaCha20" -> CCNext(g, CCStep(g.st))
    [] OTHER -> XSNext(g, XSStep(g.st))

IntOf(r, max) == [g |-> r.g, val |-> FloorMul(r.val, max)]

\* nextInt(max): return Math.floor(this.next() * max)
GenNextInt(g, max) == IntOf(GenNext(g), max)

\* bytes[i] = the integer returned: a store into a Uint8Array keeps the
\* value mod 256
GenPut(out, r) == [g |-> r.g, val |-> Append(out, ToUint32(r.val)[1])]

RECURSIVE GenBytesLoop(_, _)
\* for (i = ...; i < count; i++) bytes[i] = this.nextInt(256): st is the
\* object and the bytes stored so far
GenBytesLoop(st, count) ==
  IF Len(st.val) >= count THEN st
  ELSE GenBytesLoop(GenPut(st.val, GenNextInt(st.g, Pos(<<0, 1>>))), count)

CCBytes(g, r) == [g |-> [g EXCEPT !.st = r.g], val |-> r.bytes]

\* nextBytes(count) for count >= 0
GenNextBytes(g, count) ==
  IF g.kind = "ChaCha20" THEN CCBytes(g, CCNextBytes(g.st, count))
  ELSE GenBytesLoop([g |-> g, val |-> << >>], count)

(***************************************************************************)
(* Statistics                                                              *)
(*                                                                         *)
(* A data set is [top, xs]. xs are integers of magnitude below TopLimit;   *)
(* the samples are the doubles xs[i] when top is FALSE and the doubles     *)
(* xs[i] * 2^1017 when top is TRUE. Every sample is a finite double either *)
(* way. Under top an integer k stands for k * 2^1017, which is finite      *)
(* exactly when |k| < TopLimit: an addition or subtraction whose exact     *)
(* result has magnitude TopLimit or more yields an infinity.               *)
(*                                                                         *)
(* A computed double is NaN, an infinity, a quotient of integers (in the   *)
(* unit of the data), or the square root of one. The quotient stands for   *)
(* the double the program computes, which differs from it by rounding.     *)
(***************************************************************************)
TopLimit == 128

Overflows(d, k) == d.top /\ (k >= TopLimit \/ -k >= TopLimit)

NaN == [c |-> "nan"]

Inf(neg) == [c |-> "inf", neg |-> neg]

Fin(n, den) == [c |-> "fin", n |-> n, d |-> Ext(den, NumW)]

NumOf(k) == Num(k < 0, FromInt(IF k < 0 THEN -k ELSE k, 4))

NumInt(x) ==
  (IF x.neg THEN -1 ELSE 1) * (x.mag[1] + 256 * x.mag[2] + 65536 * x.mag[3])

Quot(n, den) == Fin(NumOf(n), FromInt(den, 4))

\* a / b for an integer a and a length b
JsDiv(a, b) ==
  IF b = 0 THEN (IF a = 0 THEN NaN ELSE Inf(a < 0)) ELSE Quot(a, b)

Sq(k) == k * k

RECURSIVE RangeSum(_, _, _)
\* xs[lo] + ... + xs[hi], exactly
RangeSum(xs, lo, hi) ==
  IF lo > hi THEN 0
  ELSE IF lo = hi THEN xs[lo]
  ELSE RangeSum(xs, lo, (lo + hi) \div 2)
         + RangeSum(xs, (lo + hi) \div 2 + 1, hi)

\* the places at which the running sum is beyond the doubles
Spilt(d) == {i \in 1..Len(d.xs) : Overflows(d, RangeSum(d.xs, 1, i))}

FirstOf(S) == CHOOSE i \in S : \A j \in S : i <= j

\* data.reduce((a, b) => a + b, 0): the sum, or the infinity the running
\* sum first reaches
SumOf(d, spilt) ==
  IF spilt = {} THEN [c |-> "int", k |-> RangeSum(d.xs, 1, Len(d.xs))]
  ELSE Inf(RangeSum(d.xs, 1, FirstOf(spilt)) < 0)

Sum(d) == SumOf(d, Spilt(d))

MeanOf(s, n) == IF s.c = "inf" THEN s ELSE JsDiv(s.k, n)

\* mean(data): the sum over data.length
Mean(d) == MeanOf(Sum(d), Len(d.xs))

RECURSIVE SqDiffSum(_, _, _, _)
\* the sum over lo..hi of (n * x - s)^2, which is n^2 times the sum of
\* (x - m)^2 for the mean m = s / n
SqDiffSum(xs, s, lo, hi) ==
  IF lo = hi THEN NumOf(Sq(Len(xs) * xs[lo] - s))
  ELSE SAdd(SqDiffSum(xs, s, lo, (lo + hi) \div 2),
            SqDiffSum(xs, s, (lo + hi) \div 2 + 1, hi))

\* under top the square of a non-zero difference is beyond the doubles
TopSqSum(xs, s) ==
  IF \A i \in 1..Len(xs) : Len(xs) * xs[i] = s THEN Quot(0, 1) ELSE Inf(FALSE)

VarOf(d, s) ==
  IF Len(d.xs) = 0 THEN NaN
  ELSE IF s.c = "inf" THEN Inf(FALSE)
  ELSE IF d.top THEN TopSqSum(d.xs, s.k)
  ELSE Fin(SqDiffSum(d.xs, s.k, 1, Len(d.xs)),
           FromInt(Len(d.xs) * Len(d.xs) * Len(d.xs), 4))

\* variance(data): the sum of the squared differences from the mean, over
\* data.length
Variance(d) == VarOf(d, Sum(d))

\* Math.sqrt
Sqrt(v) ==
  IF v.c = "inf" THEN (IF v.neg THEN NaN ELSE v)
  ELSE IF v.c = "nan" \/ IsZero(v.n.mag) THEN v
  ELSE IF v.n.neg THEN NaN
  ELSE [c |-> "sqrt", neg |-> FALSE, of |-> v]

\* stdDev(data)
StdDev(d) == Sqrt(Variance(d))

\* [...data].sort((a, b) => a - b): the stable ascending order
Rank(xs, i) ==
  1 + Cardinality({j \in 1..Len(xs) :
                     xs[j] < xs[i] \/ (xs[j] = xs[i] /\ j < i)})

Ranks(xs) == Tup([i \in 1..Len(xs) |-> Rank(xs, i)])

SortedBy(xs, rk) ==
  Tup([k \in 1..Len(xs) |-> xs[CHOOSE i \in 1..Len(xs) : rk[i] = k]])

SortAsc(xs) == SortedBy(xs, Ranks(xs))

\* a median: h halves of the data's unit
Half(h) == [c |-> "half", h |-> h]

\* Stats.runsTest: sorted[Math.floor(data.length / 2)]
LibMedian(xs) ==
  IF Len(xs) = 0 THEN [c |-> "undefined"]
  ELSE Half(2 * SortAsc(xs)[Len(xs) \div 2 + 1])

MedianAt(d, sorted, mid) ==
  IF Len(sorted) % 2 = 1 THEN Half(2 * sorted[mid + 1])
  ELSE IF Len(sorted) = 0 THEN NaN
  ELSE IF Overflows(d, sorted[mid] + sorted[mid + 1])
       THEN Inf(sorted[mid] + sorted[mid + 1] < 0)
  ELSE Half(sorted[mid] + sorted[mid + 1])

\* Statistics.median
Median(d) == MedianAt(d, SortAsc(d.xs), Len(d.xs) \div 2)

\* x >= median
AtLeast(x, m) ==
  IF m.c = "half" THEN 2 * x >= m.h ELSE m.c = "inf" /\ m.neg

Signs(xs, m) == Tup([i \in 1..Len(xs) |-> IF AtLeast(xs[i], m) THEN 1 ELSE 0])

CountRuns(signs) ==
  1 + Cardinality({i \in 2..Len(signs) : signs[i] # signs[i - 1]})

CountOf(signs, v) == Cardinality({i \in 1..Len(signs) : signs[i] = v})

\* (2 * n1 * n2) / (n1 + n2) + 1
RunExpected(n1, n2) ==
  IF n1 + n2 = 0 THEN NaN ELSE Quot(2 * n1 * n2 + n1 + n2, n1 + n2)

RunVarNum(n1, n2) == 2 * n1 * n2 * (2 * n1 * n2 - n1 - n2)

RunVarDen(n1, n2) == (n1 + n2) * (n1 + n2) * (n1 + n2 - 1)

RunVariance(n1, n2) ==
  IF RunVarDen(n1, n2) = 0 THEN NaN
  ELSE Quot(RunVarNum(n1, n2), RunVarDen(n1, n2))

\* (runs - expected) * (n1 + n2)
RunDelta(runs, n1, n2) == runs * (n1 + n2) - 2 * n1 * n2 - (n1 + n2)

\* the quotient by Math.sqrt(variance); abs: the dividend is
\* Math.abs(runs - expected). A zero variance is -0 when n1 * n2 is 0.
RunZAt(delta, num, n1, n2, abs) ==
  IF num < 0 THEN NaN
  ELSE IF num = 0
       THEN (IF delta = 0 THEN NaN
             ELSE Inf((~abs /\ delta < 0) # (n1 * n2 = 0)))
  ELSE [c |-> "sqrt", neg |-> ~abs /\ delta < 0,
        of |-> Fin(SMul(NumOf(Sq(delta)), NumOf(n1 + n2 - 1)),
                   FromInt(num, 4))]

RunZ(runs, n1, n2, abs) ==
  IF RunVarDen(n1, n2) = 0 THEN NaN
  ELSE RunZAt(RunDelta(runs, n1, n2), RunVarNum(n1, n2), n1, n2, abs)

\* 1.96 = Z_NUM / Z_DEN
Z_NUM == 49

Z_DEN == 25

\* z < 1.96 (abs) and Math.abs(zScore) < 1.96
RunPass(z, abs) ==
  IF z.c = "nan" THEN FALSE
  ELSE IF z.c = "inf" THEN abs /\ z.neg
  ELSE Lt(MulW(z.of.n.mag, FromInt(Sq(Z_DEN), 2), NumW),
          MulW(z.of.d, FromInt(Sq(Z_NUM), 2), NumW))

RunsRecord(runs, n1, n2, z, abs) ==
  [runs |-> runs, expected |-> RunExpected(n1, n2),
   variance |-> RunVariance(n1, n2), z |-> z, pass |-> RunPass(z, abs)]

RunsOf(signs, abs) ==
  RunsRecord(CountRuns(signs), CountOf(signs, 1), CountOf(signs, 0),
             RunZ(CountRuns(signs), CountOf(signs, 1), CountOf(signs, 0), abs),
             abs)

\* Stats.runsTest(data)
LibRunsTest(d) == RunsOf(Signs(d.xs, LibMedian(d.xs)), TRUE)

\* Statistics.runsTest(data)
RunsTest(d) == RunsOf(Signs(d.xs, Median(d)), FALSE)

MinOf(xs) ==
  CHOOSE v \in {xs[i] : i \in 1..Len(xs)} : \A j \in 1..Len(xs) : v <= xs[j]

MaxOf(xs) ==
  CHOOSE v \in {xs[i] : i \in 1..Len(xs)} : \A j \in 1..Len(xs) : v >= xs[j]

\* the number 1, whatever the unit of the data
One == [c |-> "fin", k |-> 1, top |-> FALSE]

\* max - min || 1
ChiSpan(d, k) ==
  IF k = 0 THEN One
  ELSE IF Overflows(d, k) THEN Inf(FALSE)
  ELSE [c |-> "fin", k |-> k, top |-> d.top]

\* Math.min(...[]) is Infinity and Math.max(...[]) is -Infinity
ChiRange(d) ==
  IF Len(d.xs) = 0 THEN Inf(TRUE) ELSE ChiSpan(d, MaxOf(d.xs) - MinOf(d.xs))

Index(k) == [nan |-> FALSE, at |-> k]

NaNIndex == [nan |-> TRUE, at |-> 0]

Min2(a, b) == IF a < b THEN a ELSE b

\* Math.min(Math.floor(((value - min) / range) * numBuckets), numBuckets - 1)
\* for off = value - min
ChiIndex(d, off, rng, nb) ==
  IF Overflows(d, off) THEN NaNIndex
  ELSE IF rng.c = "inf" \/ off = 0 THEN Index(Min2(0, nb - 1))
  ELSE Index(Min2(NumInt(FloorMul(Ratio(NumOf(off), FromInt(rng.k, 4)),
                                  NumOf(nb))),
                  nb - 1))

ChiIndices(d, rng, nb) ==
  Tup([i \in 1..Len(d.xs) |-> ChiIndex(d, d.xs[i] - MinOf(d.xs), rng, nb)])

\* buckets[bucketIndex]++ ; a NaN index counts in no bucket
ChiBuckets(idx, nb) ==
  Tup([b \in 1..nb |->
         Cardinality({i \in 1..Len(idx) : idx[i] = Index(b - 1)})])

RECURSIVE ChiSum(_, _, _, _)
\* the sum of (numBuckets * observed - N)^2 over the buckets from b
ChiSum(buckets, n, b, acc) ==
  IF b > Len(buckets) THEN acc
  ELSE ChiSum(buckets, n, b + 1, acc + Sq(Len(buckets) * buckets[b] - n))

\* the sum of (observed - expected)^2 / expected, expected = N / numBuckets
ChiStatistic(buckets, n) ==
  IF n = 0 THEN NaN ELSE Quot(ChiSum(buckets, n, 1, 0), Len(buckets) * n)

\* CHI_CRIT[df] / CritScale: the statistic at which chiSquarePValue(., df)
\* crosses 0.05, rounded down
CritScale == 1000000

CHI_CRIT ==
  <<3746763, 5936869, 7775002, 9456049, 11043945,
    12568619, 14046832, 15489063, 16902373, 18291781>>

\* pValue > 0.05, for the pValue of chiSquarePValue(statistic, df)
ChiIsRandom(stat, df) ==
  IF df <= 0 THEN TRUE
  ELSE IF stat.c = "nan" THEN FALSE
  ELSE Lt(MulW(stat.n.mag, FromInt(CritScale, 4), NumW),
          MulW(FromInt(CHI_CRIT[df], 4), stat.d, NumW))

ChiRecord(d, nb, rng, idx, buckets, stat) ==
  [range |-> rng, idx |-> idx, buckets |-> buckets,
   expected |-> JsDiv(Len(d.xs), nb), statistic |-> stat,
   degreesOfFreedom |-> nb - 1, isRandom |-> ChiIsRandom(stat, nb - 1)]

ChiCounted(d, nb, rng, idx, buckets) ==
  ChiRecord(d, nb, rng, idx, buckets, ChiStatistic(buckets, Len(d.xs)))

ChiFilled(d, nb, rng, idx) == ChiCounted(d, nb, rng, idx, ChiBuckets(idx, nb))

ChiRanged(d, nb, rng) == ChiFilled(d, nb, rng, ChiIndices(d, rng, nb))

\* Statistics.chiSquareUniformity(data, numBuckets)
ChiSquareUniformity(d, nb) == ChiRanged(d, nb, ChiRange(d))

(***************************************************************************)
(* State                                                                   *)
(***************************************************************************)
VARIABLES
  gen,     \* gen[i]: generator or Entropy object i, or NoGen before its construction
  log,     \* log[i]: the calls made on object i and what each returned
  data,    \* the sequence handed to the statistics and hex functions
  calls    \* the statistics calls made on data and what each returned

vars == <<gen, log, data, calls>>

genVars == <<gen, log>>

statVars == <<data, calls>>

Inst == 1..2

NoGen == [kind |-> "none", arg |-> NoSeed, born |-> << >>, st |-> [state |-> 0]]

\* calls drawn on one object
MaxCalls == 2

\* Date.now() at a construction: 1700000000000 and the millisecond after
Times == {<<0, 104, 229, 207, 139, 1>>, <<1, 104, 229, 207, 139, 1>>}

Key42 == Tup([i \in 1..32 |-> 42])

KeyOnes == <<31, 237, 140, 145>> \o Zeros(28)

\* explicit seeds tried for each variant
SeedsOf(kind) ==
  CASE kind \in {"LCG", "LCGm"} -> {Pos(FromInt(12345, 4)), Pos(U32_MAX)}
    [] kind = "MT" -> {Pos(<<42>>), Pos(FromInt(5489, 4))}
    [] kind = "ChaCha20" -> {Key42, KeyOnes}
    [] OTHER -> {FromInt(12345, 8), Zeros(8)}

\* what the entropy pool may give a ChaCha20 built without a seed
EntOf(kind, seed) ==
  IF kind = "ChaCha20" /\ seed = NoSeed THEN {Key42, KeyOnes} ELSE {NoSeed}

\* arguments tried for nextInt and nextBytes
IntArgs == {Pos(<<0>>), Pos(<<10>>), Num(TRUE, <<1>>)}

CountArgs == {-1, 0, 2}

\* statistics calls made on one data set
MaxStatCalls == 1

\* the length of the long data sets
RunLen == 100

NoData == [top |-> FALSE, xs |-> << >>]

Ramp(start, step, n) == Tup([i \in 1..n |-> start + step * (i - 1)])

\* strictly increasing by growing steps
Curve(n) == Tup([i \in 1..n |-> i + Sq(i) \div 50])

\* alternating around the middle
Zigzag(n) == Tup([i \in 1..n |-> IF i % 2 = 0 THEN i ELSE n - i])

ShortData ==
  UNION {[1..n -> {1, 2, 5}] : n \in 0..3}
    \cup {<<5, 5, 5, 5, 5>>, <<3, 1, 4, 1, 5, 9, 2, 6>>, <<0, 10, 20, 30>>}

LongData ==
  {Ramp(a, s, RunLen) : a \in {-50, 0, 7}, s \in {1, 2}}
    \cup {Curve(RunLen), Zigzag(RunLen), Ramp(9, 0, RunLen)}

TopData ==
  {<<-100, 100>>, <<100, 100>>, <<100, 90, 80>>, Ramp(0, 1, RunLen),
   Ramp(20, 1, RunLen), Ramp(27, 1, RunLen)}

\* the data sets handed to the statistics
DataSets ==
  {[top |-> FALSE, xs |-> Tup(xs)] : xs \in ShortData \cup LongData}
    \cup {[top |-> TRUE, xs |-> xs] : xs \in TopData}

Modules == {"Stats", "Statistics"}

\* numBuckets passed to chiSquareUniformity; 10 is its default
BucketArgs == {1, 2, 10}

GenInit ==
  /\ gen = [i \in Inst |-> NoGen]
  /\ log = [i \in Inst |-> << >>]

StatIdle ==
  /\ data = NoData
  /\ calls = << >>

Init == GenInit /\ StatIdle

(***************************************************************************)
(* Actions                                                                 *)
(***************************************************************************)
Construct(i, kind, seed, t, ent) ==
  /\ gen[i].kind = "none"
  /\ gen' = [gen EXCEPT ![i] = NewGen(kind, seed, t, ent)]
  /\ UNCHANGED <<log, data, calls>>

Returned(op, arg, val) == [op |-> op, arg |-> arg, threw |-> "none", val |-> val]

Threw(op, arg, err) == [op |-> op, arg |-> arg, threw |-> err, val |-> << >>]

\* the state kept in one place for all objects of a class
CommitShared(i, op, arg, r) ==
  /\ gen' = [j \in Inst |->
              IF j = i THEN r.g
              ELSE IF gen[j].kind = gen[i].kind THEN [gen[j] EXCEPT !.st = r.g.st]
              ELSE gen[j]]
  /\ log' = [log EXCEPT ![i] = Append(@, Returned(op, arg, r.val))]

\* the call op(arg) on object i returned r.val and left the object as r.g
Commit(i, op, arg, r) ==
  /\ gen' = [gen EXCEPT ![i] = r.g]
  /\ log' = [log EXCEPT ![i] = Append(@, Returned(op, arg, r.val))]

CallNext(i) ==
  /\ gen[i].kind # "none"
  /\ Len(log[i]) < MaxCalls
  /\ Commit(i, "next", << >>, GenNext(gen[i]))
  /\ UNCHANGED <<data, calls>>

\* no variant checks max: the call always returns
CallNextInt(i, max) ==
  /\ gen[i].kind # "none"
  /\ Len(log[i]) < MaxCalls
  /\ Commit(i, "nextInt", max, GenNextInt(gen[i], max))
  /\ UNCHANGED <<data, calls>>

\* new Uint8Array(count) throws a RangeError for a negative count, before
\* any draw; src/modules LCG has no nextBytes
CallNextBytes(i, count) ==
  /\ gen[i].kind \notin {"none", "LCGm"}
  /\ Len(log[i]) < MaxCalls
  /\ IF count < 0
     THEN /\ log' = [log EXCEPT ![i] = Append(@, Threw("nextBytes", count, "RangeError"))]
          /\ UNCHANGED gen
     ELSE Commit(i, "nextBytes", count, GenNextBytes(gen[i], count))
  /\ UNCHANGED <<data, calls>>

(***************************************************************************)
(* Spec: one object of any variant, with or without a seed, and every      *)
(* operation on it                                                         *)
(***************************************************************************)
New ==
  \E kind \in Kinds, t \in Times :
    \E seed \in {<<v>> : v \in SeedsOf(kind)} \cup {NoSeed} :
      \E ent \in EntOf(kind, seed) : Construct(1, kind, seed, t, ent)

Draw == CallNext(1)

DrawInt == \E max \in IntArgs : CallNextInt(1, max)

DrawBytes == \E count \in CountArgs : CallNextBytes(1, count)

Next == New \/ Draw \/ DrawInt \/ DrawBytes

Spec == Init /\ [][Next]_vars

(***************************************************************************)
(* DetSpec: two objects of one variant built with the same explicit seed,  *)
(* each at a time of its own, drawn from in any interleaving               *)
(***************************************************************************)
NewFirst ==
  \E kind \in Kinds, t \in Times :
    \E v \in SeedsOf(kind) : Construct(1, kind, <<v>>, t, NoSeed)

NewSecond ==
  /\ gen[1].kind # "none"
  /\ \E t \in Times : Construct(2, gen[1].kind, gen[1].arg, t, NoSeed)

DrawEither == \E i \in Inst : CallNext(i)

DetNext == NewFirst \/ NewSecond \/ DrawEither

DetSpec == Init /\ [][DetNext]_vars

(***************************************************************************)
(* StatSpec: the statistics functions applied to one data set              *)
(***************************************************************************)
StatInit ==
  /\ GenInit
  /\ data \in DataSets
  /\ calls = << >>

\* a call of module m's function op that returned val; the functions copy
\* data before sorting and assign to no argument
Apply(m, op, arg, val) ==
  /\ Len(calls) < MaxStatCalls
  /\ calls' = Append(calls, [of |-> m, op |-> op, arg |-> arg,
                              threw |-> "none", val |-> val])
  /\ UNCHANGED <<gen, log, data>>

CallMean == \E m \in Modules : Apply(m, "mean", << >>, Mean(data))

CallVariance == \E m \in Modules : Apply(m, "variance", << >>, Variance(data))

CallStdDev == \E m \in Modules : Apply(m, "stdDev", << >>, StdDev(data))

CallMedian == Apply("Statistics", "median", << >>, Median(data))

CallRunsTest ==
  \/ Apply("Stats", "runsTest", << >>, LibRunsTest(data))
  \/ Apply("Statistics", "runsTest", << >>, RunsTest(data))

CallChiSquareUniformity ==
  \E nb \in BucketArgs :
    Apply("Statistics", "chiSquareUniformity", <<nb>>,
          ChiSquareUniformity(data, nb))

StatNext ==
  \/ CallMean
  \/ CallVariance
  \/ CallStdDev
  \/ CallMedian
  \/ CallRunsTest
  \/ CallChiSquareUniformity

StatSpec == StatInit /\ [][StatNext]_vars

(***************************************************************************)
(* Determinism of seeded generators                                        *)
(***************************************************************************)
\* both objects exist, of one variant, built with the same explicit seed
SameSeedPair ==
  /\ gen[1].kind # "none"
  /\ gen[1].kind = gen[2].kind
  /\ gen[1].arg # NoSeed
  /\ gen[1].arg = gen[2].arg

\* the k-th calls of the two objects returned equal values, as far as
\* both have been made
Agree ==
  \A k \in 1..MaxCalls + 1 :
    (k <= Len(log[1]) /\ k <= Len(log[2])) => log[1][k].val = log[2][k].val

\* C1: two LCG, MersenneTwister or XorShift128Plus objects built with the
\* same explicit seed, at whatever times, return equal values from their
\* k-th next() calls, for every k
C1_SeededDeterminism ==
  (SameSeedPair /\ gen[1].kind \in {"LCG", "LCGm", "MT", "XorShift128Plus"}) => Agree

\* two MersenneTwister objects with one seed, built at different times,
\* have each been drawn from twice
C1_Witness ==
  /\ SameSeedPair
  /\ gen[1].kind = "MT"
  /\ gen[1].born # gen[2].born
  /\ Len(log[1]) >= 2
  /\ Len(log[2]) >= 2

\* C2: two ChaCha20 objects built with the same explicit 32-byte seed
\* return equal values from their k-th next() calls, whatever the two
\* moments of construction
C2_ChaChaDeterminism == (SameSeedPair /\ gen[1].kind = "ChaCha20") => Agree

(***************************************************************************)
(* Ranges of the values returned                                           *)
(***************************************************************************)
\* the k-th call on object i was op and returned
Did(i, k, op) == log[i][k].op = op /\ log[i][k].threw = "none"

\* C3: every next() of an LCG, seeded or not, returns v with 0 <= v < 1
\* and leaves the state an integer in [0, 2^32)
C3_LCGRange ==
  \A i \in Inst :
    gen[i].kind \in {"LCG", "LCGm"} =>
      /\ \A k \in 1..Len(log[i]) : Did(i, k, "next") => InUnit(log[i][k].val)
      /\ (Len(log[i]) > 0 /\ Did(i, Len(log[i]), "next")) =>
           (~gen[i].st.state.neg /\ Lt(gen[i].st.state.mag, LCG_m))

\* C4: every next() of MersenneTwister, ChaCha20 and XorShift128Plus
\* returns v with 0 <= v < 1
C4_UnitRange ==
  \A i \in Inst :
    gen[i].kind \in {"MT", "ChaCha20", "XorShift128Plus"} =>
      \A k \in 1..Len(log[i]) : Did(i, k, "next") => InUnit(log[i][k].val)

\* C5: nextInt(k) with k > 0 returns an integer r with 0 <= r < k, for
\* every variant
C5_NextIntRange ==
  \A i \in Inst : \A k \in 1..Len(log[i]) :
    (Did(i, k, "nextInt") /\ ~log[i][k].arg.neg /\ ~IsZero(log[i][k].arg.mag)) =>
      (~log[i][k].val.neg /\ Lt(log[i][k].val.mag, log[i][k].arg.mag))

\* the call was nextInt(max) with max <= 0 or nextBytes(count) with count < 0
BadArgument(e) ==
  \/ e.op = "nextInt" /\ (e.arg.neg \/ IsZero(e.arg.mag))
  \/ e.op = "nextBytes" /\ e.arg < 0

\* C6: nextInt(max) with max <= 0 and nextBytes(count) with count < 0 fail
\* with an InvalidArgument error instead of returning a value
C6_InvalidArgument ==
  \A i \in Inst : \A k \in 1..Len(log[i]) :
    BadArgument(log[i][k]) => log[i][k].threw = "InvalidArgument"

Called(k, ops) == calls[k].op \in ops

\* C7: mean, variance and stdDev, of Stats and of Statistics, fail with an
\* EmptyInput error when they are called on a zero-length sequence; they
\* return no number.
C7_EmptyInput ==
  \A k \in 1..Len(calls) :
    (Called(k, {"mean", "variance", "stdDev"}) /\ Len(data.xs) = 0)
      => calls[k].threw = "EmptyInput"

ZeroVariance(r) == r.variance.c = "fin" /\ IsZero(r.variance.n.mag)

\* C8: runsTest fails with a DegenerateInput error whenever the variance of
\* the run count is zero (constant data, every value on one side of the
\* median); it returns no result record.
C8_DegenerateInput ==
  \A k \in 1..Len(calls) :
    (Called(k, {"runsTest"}) /\ calls[k].threw = "none")
      => ~ZeroVariance(calls[k].val)

RECURSIVE SumSeq(_, _)
SumSeq(s, i) == IF i > Len(s) THEN 0 ELSE s[i] + SumSeq(s, i + 1)

AllEqual(xs) == \A i \in 1..Len(xs) : xs[i] = xs[1]

InBucket(ix, nb) == ~ix.nan /\ ix.at \in 0..(nb - 1)

\* C9: chiSquareUniformity on non-empty data and numBuckets >= 1 gives
\* every sample a bucket index in [0, numBuckets - 1], so that the bucket
\* counts sum to N; when all the values are equal the range is taken as 1
\* and the call returns a result with isRandom = false; it never throws.
C9_ChiSquareBuckets ==
  \A k \in 1..Len(calls) :
    (Called(k, {"chiSquareUniformity"}) /\ Len(data.xs) > 0)
      => /\ calls[k].threw = "none"
         /\ \A i \in 1..Len(data.xs) :
              InBucket(calls[k].val.idx[i], calls[k].arg[1])
         /\ SumSeq(calls[k].val.buckets, 1) = Len(data.xs)
         /\ AllEqual(data.xs)
              => (calls[k].val.range = One /\ ~calls[k].val.isRandom)

Increasing(xs) == \A i \in 2..Len(xs) : xs[i - 1] < xs[i]

\* the expected run count is a number above r
ExpectsAbove(v, r) ==
  v.c = "fin" /\ ~v.n.neg /\ Lt(MulW(FromInt(r, 4), v.d, NumW), v.n.mag)

\* C10: on every strictly increasing sequence of 100 values runsTest, of
\* Stats and of Statistics, counts exactly 2 runs, fewer than the expected
\* count, and reports the test as failed.
C10_IncreasingRuns ==
  \A k \in 1..Len(calls) :
    (Called(k, {"runsTest"}) /\ Len(data.xs) = RunLen /\ Increasing(data.xs))
      => /\ calls[k].val.runs = 2
         /\ ExpectsAbove(calls[k].val.expected, 2)
         /\ ~calls[k].val.pass

(***************************************************************************)
(* toHex and fromHex (lib/entropy.ts). A string is the tuple of its        *)
(* characters.                                                             *)
(***************************************************************************)
HEX_DIGITS ==
  <<"0", "1", "2", "3", "4", "5", "6", "7",
    "8", "9", "a", "b", "c", "d", "e", "f">>

HEX_UPPER == <<"A", "B", "C", "D", "E", "F">>

\* b.toString(16) for a byte b
ToString16(b) ==
  IF b < 16 THEN <<HEX_DIGITS[b + 1]>>
  ELSE <<HEX_DIGITS[(b \div 16) + 1], HEX_DIGITS[(b % 16) + 1]>>

PadNone(s, n, ch) == s

RECURSIVE PadStart(_, _, _)
\* s.padStart(n, ch)
PadStart(s, n, ch) == IF Len(s) >= n THEN s ELSE PadStart(<<ch>> \o s, n, ch)

RECURSIVE Join(_, _)
\* parts.join(''), from part i on
Join(parts, i) == IF i > Len(parts) THEN << >> ELSE parts[i] \o Join(parts, i + 1)

\* toHex(bytes)
ToHex(bytes) ==
  Join([i \in 1..Len(bytes) |-> PadStart(ToString16(bytes[i]), 2, "0")], 1)

\* the value of a hexadecimal digit, -1 for any other character
HexVal(ch) ==
  IF \E k \in 1..16 : HEX_DIGITS[k] = ch
  THEN (CHOOSE k \in 1..16 : HEX_DIGITS[k] = ch) - 1
  ELSE IF \E k \in 1..6 : HEX_UPPER[k] = ch
  THEN (CHOOSE k \in 1..6 : HEX_UPPER[k] = ch) + 9
  ELSE -1

RECURSIVE ParseFrom(_, _, _)
\* parseInt(s, 16) on a string without blanks, sign or 0x prefix: the
\* digits before the first character that is none; acc is the value read
\* so far, -1 (NaN) while no digit has been read
ParseFrom(s, i, acc) ==
  IF i > Len(s) \/ HexVal(s[i]) < 0 THEN acc
  ELSE ParseFrom(s, i + 1, (IF acc < 0 THEN 0 ELSE acc) * 16 + HexVal(s[i]))

ParseInt16(s) == ParseFrom(s, 1, -1)

\* hex.slice(a, b)
Slice(hex, a, b) == SubSeq(hex, a + 1, Min2(b, Len(hex)))

\* the store of a number into a Uint8Array: NaN is stored as 0
ByteOf(v) == IF v < 0 THEN 0 ELSE v % 256

\* fromHex(hex); new Uint8Array(hex.length / 2) drops a fraction
FromHex(hex) ==
  Tup([i \in 1..(Len(hex) \div 2) |->
         ByteOf(ParseInt16(Slice(hex, 2 * (i - 1), 2 * i)))])

\* bytes given to toHex
MaxHexLen == 3

\* calls of toHex and fromHex
MaxHexCalls == 2

HexBytes == {0, 10, 16, 171, 255}

HexInputs == UNION {[1..n -> HexBytes] : n \in 0..MaxHexLen}

\* strings given to fromHex besides those toHex returned
HexStrings == {<<"F", "0">>, <<"g", "1">>, <<"a", "b", "c">>}

HexApply(op, arg, val) ==
  /\ Len(calls) < MaxHexCalls
  /\ calls' = Append(calls, [of |-> "entropy", op |-> op, arg |-> arg,
                              threw |-> "none", val |-> val])
  /\ UNCHANGED <<gen, log, data>>

\* toHex(data)
CallToHex == \E b \in {data.xs} : HexApply("toHex", b, ToHex(b))

HexGiven == {calls[k].val : k \in {j \in 1..Len(calls) : calls[j].op = "toHex"}}

CallFromHex ==
  \E hex \in HexStrings \cup HexGiven : HexApply("fromHex", hex, FromHex(hex))

HexNext ==
  \/ CallToHex
  \/ CallFromHex

(***************************************************************************)
(* HexSpec: toHex on a byte sequence, fromHex on what toHex returned and   *)
(* on other strings                                                        *)
(***************************************************************************)
HexInit ==
  /\ GenInit
  /\ data \in {[top |-> FALSE, xs |-> Tup(b)] : b \in HexInputs}
  /\ calls = << >>

HexSpec == HexInit /\ [][HexNext]_vars

(***************************************************************************)
(* Hex round trip                                                          *)
(***************************************************************************)
LowerHex(s) == \A i \in 1..Len(s) : \E k \in 1..16 : HEX_DIGITS[k] = s[i]

\* fromHex applied in call k to what toHex returned in call j
RoundTrip(j, k) ==
  /\ calls[j].op = "toHex"
  /\ calls[k].op = "fromHex"
  /\ Len(calls[k].arg) = Len(calls[j].val)
  /\ \A i \in 1..Len(calls[k].arg) : calls[k].arg[i] = calls[j].val[i]

\* C11: fromHex(toHex(bytes)) = bytes for every byte sequence, the empty
\* one included, and toHex yields exactly two lowercase hexadecimal digits
\* for each byte.
C11_HexRoundTrip ==
  /\ \A j \in 1..Len(calls) :
       calls[j].op = "toHex"
         => (Len(calls[j].val) = 2 * Len(calls[j].arg) /\ LowerHex(calls[j].val))
  /\ \A j \in 1..Len(calls), k \in 1..Len(calls) :
       RoundTrip(j, k) => calls[k].val = calls[j].arg

C11_Witness ==
  /\ Len(calls) = 2
  /\ RoundTrip(1, 2)
  /\ Len(calls[1].arg) = MaxHexLen
  /\ calls[1].arg[1] = 10
  /\ calls[1].arg[2] = 255
  /\ calls[2].val = calls[1].arg

(***************************************************************************)
(* Stats.chiSquare, Stats.entropy and Stats.assess                         *)
(*                                                                         *)
(* The samples of a data set handed to assess are the doubles              *)
(* xs[i] / BYTE, so that d * 256 is the integer xs[i] and v * buckets is   *)
(* the exact quotient xs[i] * buckets / BYTE. The data sets of AssessSpec  *)
(* have a power of two as length and as count of every byte, where         *)
(* Math.log2 and the sum of entropy are exact.                             *)
(***************************************************************************)
BYTE == 256

\* Math.min(Math.floor(v * buckets), buckets - 1)
LibBucket(k, buckets) == Min2((k * buckets) \div BYTE, buckets - 1)

\* counts after the loop; an index below 0 names no element of counts
LibCounts(xs, buckets) ==
  Tup([b \in 1..buckets |->
         Cardinality({i \in 1..Len(xs) : LibBucket(xs[i], buckets) = b - 1})])

\* criticalValue = 16.92 = CHI_NUM / CHI_DEN
CHI_NUM == 423

CHI_DEN == 25

\* statistic < criticalValue, the statistic being sum / (buckets * n)
LibChiPass(sum, bn) == bn > 0 /\ CHI_DEN * sum < CHI_NUM * bn

LibChiOf(counts, n) ==
  [statistic |-> ChiStatistic(counts, n),
   pass |-> LibChiPass(ChiSum(counts, n, 1, 0), Len(counts) * n)]

\* Stats.chiSquare(data, buckets)
LibChiSquare(d, buckets) == LibChiOf(LibCounts(d.xs, buckets), Len(d.xs))

\* new Uint8Array(data.map(d => Math.floor(d * 256)))
Bytes(xs) == Tup([i \in 1..Len(xs) |-> xs[i] % BYTE])

\* freq after the loop, freq[b] at b + 1
Freq(bytes) ==
  Tup([b \in 1..BYTE |->
         Cardinality({i \in 1..Len(bytes) : bytes[i] = b - 1})])

\* Math.log2 of a power of two
Log2(k) == CHOOSE e \in 0..16 : 2 ^ e = k

\* -(f / n) * Math.log2(f / n) in units of 1 / n
EntropyTerm(f, n) == IF f > 0 THEN f * (Log2(n) - Log2(f)) ELSE 0

EntropyTerms(freq, n) == Tup([b \in 1..Len(freq) |-> EntropyTerm(freq[b], n)])

\* Stats.entropy(data)
Entropy(bytes) ==
  IF Len(bytes) = 0 THEN Quot(0, 1)
  ELSE Quot(RangeSum(EntropyTerms(Freq(bytes), Len(bytes)), 1, BYTE),
            Len(bytes))

\* ent > halves / 2
MoreThan(ent, halves) ==
  2 * NumInt(ent.n) > halves * (ent.d[1] + 256 * ent.d[2] + 65536 * ent.d[3])

\* a score that counts the partial entropy credit above a passing test
ScoreSkewed(chi, runs, ent) ==
  (IF chi THEN 33 ELSE 0) + (IF runs THEN 33 ELSE 0)
    + (IF MoreThan(ent, 15) THEN 34 ELSE IF MoreThan(ent, 13) THEN 40 ELSE 0)

\* score after the four conditionals
Score(chi, runs, ent) ==
  (IF chi THEN 33 ELSE 0) + (IF runs THEN 33 ELSE 0)
    + (IF MoreThan(ent, 15) THEN 34 ELSE IF MoreThan(ent, 13) THEN 17 ELSE 0)

Quality(score) ==
  IF score >= 90 THEN "excellent"
  ELSE IF score >= 70 THEN "good"
  ELSE IF score >= 50 THEN "fair" ELSE "poor"

\* what assess returns, and sub: the three sub-tests it passed
Rated(chi, runs, high, score) ==
  [score |-> score, quality |-> Quality(score),
   sub |-> <<chi, runs, high>>]

AssessOf(chi, runs, ent) ==
  Rated(chi.pass, runs.pass, MoreThan(ent, 15),
        Score(chi.pass, runs.pass, ent))

\* Stats.assess(data)
Assess(d) == AssessOf(LibChiSquare(d, 10), LibRunsTest(d), Entropy(Bytes(d.xs)))

MaxAssessCalls == 2

\* a permutation of the places of xs, Len(xs) a power of two
Shuffled(xs) ==
  Tup([i \in 1..Len(xs) |-> xs[1 + ((((i - 1) * i) \div 2) % Len(xs))]])

\* every q-th byte value, q times each
Coarse(q) == Tup([i \in 1..BYTE |-> q * ((i - 1) \div q)])

\* the lowest byte values, q times each
Low(q) == Tup([i \in 1..BYTE |-> (i - 1) \div q])

\* the byte values from 32 up, the highest 32 twice
Fold == Tup([i \in 1..BYTE |-> IF i <= 224 THEN 31 + i ELSE i - 1])

SortedData == {Ramp(0, 1, BYTE), Fold, Coarse(2), Low(2)}

AssessData ==
  {[top |-> FALSE, xs |-> xs] :
     xs \in SortedData \cup {Shuffled(xs) : xs \in SortedData}
              \cup {Coarse(4), << >>}}

\* assess(d)
CallAssess ==
  \E d \in AssessData :
    /\ Len(calls) < MaxAssessCalls
    /\ calls' = Append(calls, [of |-> "Stats", op |-> "assess", arg |-> d.xs,
                                threw |-> "none", val |-> Assess(d)])
    /\ UNCHANGED <<gen, log, data>>

AssessNext == CallAssess

(***************************************************************************)
(* AssessSpec: Stats.assess applied to data sets, one after the other      *)
(***************************************************************************)
AssessSpec == Init /\ [][AssessNext]_vars

(***************************************************************************)
(* Score of assess                                                         *)
(***************************************************************************)
\* the number of sub-tests passed in call j
Passed(j) == Cardinality({t \in 1..3 : calls[j].val.sub[t]})

\* C12: the score of Stats.assess is monotonic in the number of passing
\* sub-tests (chi-square pass, runs pass, entropy > 7.5): an input that
\* passes more sub-tests than another has a score at least as high; the
\* score always lies in [0, 100].
C12_ScoreMonotonic ==
  /\ \A j \in 1..Len(calls) : calls[j].val.score \in 0..100
  /\ \A j \in 1..Len(calls), k \in 1..Len(calls) :
       Passed(j) > Passed(k) => calls[j].val.score >= calls[k].val.score

\* one test passed with no entropy credit, after none passed with partial
\* credit
C12_Witness ==
  /\ Len(calls) = 2
  /\ Passed(1) = 0
  /\ calls[1].val.score = 17
  /\ Passed(2) = 1
  /\ calls[2].val.score = 33

(***************************************************************************)
(* Order of the data                                                       *)
(***************************************************************************)
Occurs(xs, v) == Cardinality({i \in 1..Len(xs) : xs[i] = v})

IsPermutation(a, b) ==
  /\ Len(a) = Len(b)
  /\ \A v \in {a[i] : i \in 1..Len(a)} : Occurs(a, v) = Occurs(b, v)

\* C13: Stats.assess returns the same score for every permutation of the
\* same data: shuffling the input sequence does not change the score.
C13_OrderIndependent ==
  \A j \in 1..Len(calls), k \in 1..Len(calls) :
    (j < k /\ IsPermutation(calls[j].arg, calls[k].arg))
      => calls[j].val.score = calls[k].val.score

(***************************************************************************)
(* PairSpec: two objects of any two classes of src/lib/entropy.ts, each    *)
(* built with an explicit seed, and every operation on either in any       *)
(* interleaving                                                            *)
(***************************************************************************)
MaxPairCalls == 2

PairKinds == Kinds \ {"LCGm"}

PairSeed(kind) ==
  CASE kind = "LCG" -> Pos(FromInt(12345, 4))
    [] kind = "MT" -> Pos(FromInt(5489, 4))
    [] kind = "ChaCha20" -> Key42
    [] OTHER -> Zeros(8)

PairTime == <<0, 104, 229, 207, 139, 1>>

\* both objects exist and another call may be made
PairOpen ==
  /\ \A i \in Inst : gen[i].kind # "none"
  /\ Len(log[1]) + Len(log[2]) < MaxPairCalls

\* the classes in the order of the source file
KindRank(kind) ==
  CASE kind = "LCG" -> 1
    [] kind = "MT" -> 2
    [] kind = "ChaCha20" -> 3
    [] OTHER -> 4

\* the first object, then the second: of the same class or of a later one,
\* which with the calls in either order gives every pair of classes
NewEither ==
  \E i \in Inst, kind \in PairKinds :
    /\ \A j \in 1..(i - 1) :
         gen[j].kind # "none" /\ KindRank(gen[j].kind) <= KindRank(kind)
    /\ Construct(i, kind, <<PairSeed(kind)>>, PairTime, NoSeed)

NextEither == \E i \in Inst : PairOpen /\ CallNext(i)

NextIntEither == \E i \in Inst : PairOpen /\ CallNextInt(i, Pos(<<10>>))

NextBytesEither == \E i \in Inst : PairOpen /\ CallNextBytes(i, 2)

PairNext == NewEither \/ NextEither \/ NextIntEither \/ NextBytesEither

PairSpec == Init /\ [][PairNext]_vars

(***************************************************************************)
(* Independence of the objects                                             *)
(***************************************************************************)
\* the call c made on the object g alone
Alone(g, c) ==
  CASE c.op = "next" -> GenNext(g)
    [] c.op = "nextInt" -> GenNextInt(g, c.arg)
    [] OTHER -> GenNextBytes(g, c.arg)

\* the step is a call on object i
CallOn(i) == Len(log'[i]) > Len(log[i])

OthersKept(i) == \A j \in Inst \ {i} : gen'[j] = gen[j] /\ log'[j] = log[j]

ActedAlone(g, c) == [g |-> g, val |-> c.val]

LcgStates ==
  {<<b0, b1, b2, b3>> : b0 \in {0, 1, 255}, b1 \in {0, 255},
                        b2 \in {0, 255}, b3 \in {0, 128, 255}}

NewLcg ==
  \E kind \in {"LCG", "LCGm"} :
    \E seed \in {<<Pos(x)>> : x \in LcgStates} \cup {NoSeed} :
      Construct(1, kind, seed, PairTime, NoSeed)

\* lib setState(state): this.state = state >>> 0, called before any draw
SetLcg ==
  \E x \in LcgStates :
    /\ gen[1].kind = "LCG"
    /\ log[1] = << >>
    /\ Commit(1, "setState", Pos(x),
              [g |-> [gen[1] EXCEPT !.st = [state |-> LCGSetState(Pos(x))]],
               val |-> << >>])
    /\ UNCHANGED <<data, calls>>

DrawLcg ==
  /\ gen[1].kind \in {"LCG", "LCGm"}
  /\ CallNext(1)

LcgNext == NewLcg \/ SetLcg \/ DrawLcg

LcgSpec == Init /\ [][LcgNext]_vars

(***************************************************************************)
(* The LCG recurrence                                                      *)
(***************************************************************************)
\* an integer in [0, 2^32)
Unsigned32(n) == ~n.neg /\ \A k \in 5..Len(n.mag) : n.mag[k] = 0

\* (1664525 * state + 1013904223) mod 2^32 in integer arithmetic
ExactStep(state) ==
  Pos(Ext(AddW(MulW(Ext(state.mag, 4), LCG_a.mag, 8), LCG_c.mag, 8), 4))

\* the step is a next() on object i
NextOn(i) ==
  /\ Len(log'[i]) = Len(log[i]) + 1
  /\ log'[i][Len(log'[i])].op = "next"

\* C16: LCG.next sets state' = (1664525 * state + 1013904223) mod 2^32
\* exactly, with no loss of low-order bits, and returns state' / 2^32, for
\* every 32-bit unsigned state.
C16_LCGExact ==
  [][(gen[1].kind \in {"LCG", "LCGm"} /\ NextOn(1) /\ Unsigned32(gen[1].st.state))
       => /\ gen'[1].st.state = ExactStep(gen[1].st.state)
          /\ log'[1][Len(log'[1])].val = Ratio(ExactStep(gen[1].st.state), LCG_m)]_vars

\* next() of the src/modules LCG at state 2^32 - 1
C16_Witness ==
  /\ gen[1].kind = "LCGm"
  /\ gen[1].arg = <<Pos(U32_MAX)>>
  /\ Len(log[1]) = 1
  /\ log[1][1].op = "next"
  /\ gen[1].st.state = Pos(<<82, 141, 85, 60>>)

(***************************************************************************)
(* The seeding of MersenneTwister                                          *)
(***************************************************************************)
\* (1812433253 * (prev xor (prev >> 30)) + i) mod 2^32 in integer arithmetic
ExactSeedWord(prev, i) ==
  Ext(AddW(MulW(MT_F.mag, XorW(prev, ShrW(prev, 30, 4), 4), 8), FromInt(i, 4), 8), 4)

\* C17: seeding MersenneTwister fills the state so that mt[0] = seed mod
\* 2^32 and mt[i] = (1812433253 * (mt[i-1] xor (mt[i-1] >> 30)) + i) mod
\* 2^32 exactly for every i in 1..623, for every 32-bit seed.
C17_MTSeeding ==
  \A i \in Inst :
    (gen[i].kind = "MT" /\ gen[i].arg # NoSeed /\ log[i] = << >>) =>
      /\ At(gen[i].st.mt, 0) = ToUint32(gen[i].arg[1])
      /\ \A k \in 1..(MT_N - 1) :
           At(gen[i].st.mt, k) = ExactSeedWord(At(gen[i].st.mt, k - 1), k)

(***************************************************************************)
(* XsSpec: one XorShift128Plus, built with a seed or without, and every    *)
(* operation on it                                                         *)
(***************************************************************************)
\* 0, 1, 12345, 2^63, 2^64 - 1, and 2^64, whose low 64 bits are zero
XsSeeds ==
  {Zeros(8), FromInt(1, 8), FromInt(12345, 8), <<0, 0, 0, 0, 0, 0, 0, 128>>,
   U64_MAX, <<0, 0, 0, 0, 0, 0, 0, 0, 1>>}

NewXs ==
  \E t \in Times :
    \E seed \in {<<v>> : v \in XsSeeds} \cup {NoSeed} :
      Construct(1, "XorShift128Plus", seed, t, NoSeed)

DrawXs == gen[1].kind = "XorShift128Plus" /\ CallNext(1)

DrawIntXs == gen[1].kind = "XorShift128Plus" /\ CallNextInt(1, Pos(<<10>>))

DrawBytesXs ==
  \E count \in {1, 2} : gen[1].kind = "XorShift128Plus" /\ CallNextBytes(1, count)

XsNext == NewXs \/ DrawXs \/ DrawIntXs \/ DrawBytesXs

XsSpec == Init /\ [][XsNext]_vars

(***************************************************************************)
(* The step of XorShift128Plus                                             *)
(***************************************************************************)
\* x xor ((x << 23) mod 2^64)
Shifted23(x) == XorW(x, Ext(ShlW(x, 23, 8), 8), 8)

\* t xor a xor (t >> 18) xor (a >> 5)
Mixed(t, a) == XorW(XorW(t, a, 8), XorW(ShrW(t, 18, 8), ShrW(a, 5, 8), 8), 8)

\* next() returned the quotient for the raw output (s0' + s1') mod 2^64
SumReturned(i) ==
  log'[i][Len(log'[i])].val
    = XSOut(Ext(AddW(gen'[i].st.s0, gen'[i].st.s1, 9), 8))

XSNextOn(i) == gen[i].kind = "XorShift128Plus" /\ NextOn(i)

\* C18: XorShift128Plus.next updates (s0, s1) so that new_s1 = old_s0 and
\* new_s0 = t xor old_s0 xor (t >> 18) xor (old_s0 >> 5), where
\* t = old_s1 xor ((old_s1 << 23) mod 2^64), and the raw output is
\* (new_s0 + new_s1) mod 2^64.
C18_XorShiftStep ==
  [][\A i \in Inst :
       XSNextOn(i) =>
         /\ gen'[i].st.s1 = gen[i].st.s0
         /\ gen'[i].st.s0 = Mixed(Shifted23(gen[i].st.s1), gen[i].st.s0)
         /\ SumReturned(i)]_vars

\* C18 as amended: new_s0 = old_s1 and
\* new_s1 = t xor old_s1 xor (t >> 18) xor (old_s1 >> 5), where
\* t = old_s0 xor ((old_s0 << 23) mod 2^64), and the raw output is
\* (new_s0 + new_s1) mod 2^64.
C18_XorShiftStepAmended ==
  [][\A i \in Inst :
       XSNextOn(i) =>
         /\ gen'[i].st.s0 = gen[i].st.s1
         /\ gen'[i].st.s1 = Mixed(Shifted23(gen[i].st.s0), gen[i].st.s1)
         /\ SumReturned(i)]_vars

\* two draws from the object seeded 12345
C18_Witness ==
  /\ gen[1].kind = "XorShift128Plus"
  /\ gen[1].arg = <<FromInt(12345, 8)>>
  /\ Len(log[1]) = 2
  /\ log[1][1].op = "next"
  /\ log[1][2].op = "next"

(***************************************************************************)
(* The state of XorShift128Plus                                            *)
(***************************************************************************)
\* 8 limbs: a number in [0, 2^64)
Unsigned64(x) == Len(x) = 8 /\ \A k \in 1..8 : x[k] \in 0..255

\* C19: for XorShift128Plus built with any seed, 0 and the seeds with a
\* zero derived half included, in every state after the construction and
\* after any number of draws s0 and s1 are in [0, 2^64) and not both zero;
\* the construction never fails on a zero seed.
C19_XorShiftState ==
  \A i \in Inst :
    gen[i].kind = "XorShift128Plus" =>
      /\ Unsigned64(gen[i].st.s0)
      /\ Unsigned64(gen[i].st.s1)
      /\ ~(IsZero(gen[i].st.s0) /\ IsZero(gen[i].st.s1))

\* the object seeded 0, drawn from twice
C19_Witness ==
  /\ gen[1].kind = "XorShift128Plus"
  /\ gen[1].arg = <<Zeros(8)>>
  /\ Len(log[1]) = 2
  /\ log[1][1].op = "next"
  /\ ~IsZero(gen[1].st.s0)

(***************************************************************************)
(* CounterSpec: a ChaCha20 that is new, or has produced 1, 2^32 - 1 or     *)
(* 2^32 blocks, and draws from it                                          *)
(***************************************************************************)
\* words 12 and 13 when the last block was made: 0, 2^32 - 2 and 2^32 - 1
\* blocks into the stream
CcCounts == {<<Zeros(4), Zeros(4)>>, <<<<254, 255, 255, 255>>, Zeros(4)>>,
             <<U32_MAX, Zeros(4)>>}

\* the generator built with key at time t after n + 1 blocks, the last one
\* just made and none of it taken: block() has run with the words 12 and
\* 13 at c = <<n mod 2^32, n div 2^32>>
CcForward(key, t, c) ==
  CCBlock([CCInitKey(key, t) EXCEPT !.state[13] = c[1], !.state[14] = c[2]])

CcObject(key, t, c) ==
  [kind |-> "ChaCha20", arg |-> <<key>>, born |-> t, st |-> CcForward(key, t, c)]

CounterInit ==
  /\ gen \in {[i \in Inst |-> NoGen]}
               \cup {[i \in Inst |-> IF i = 1 THEN CcObject(Key42, t, c) ELSE NoGen] :
                       t \in Times, c \in CcCounts}
  /\ log = [i \in Inst |-> << >>]
  /\ StatIdle

NewCc == \E t \in Times : Construct(1, "ChaCha20", <<Key42>>, t, NoSeed)

DrawCc == gen[1].kind = "ChaCha20" /\ CallNext(1)

\* at most one block is made in a call
DrawBytesCc ==
  \E count \in {1, 60, 64} : gen[1].kind = "ChaCha20" /\ CallNextBytes(1, count)

CounterNext == NewCc \/ DrawCc \/ DrawBytesCc

CounterSpec == CounterInit /\ [][CounterNext]_vars

(***************************************************************************)
(* The block counter of ChaCha20                                           *)
(***************************************************************************)
\* the keystream bytes the call c takes
TakenBy(c) == IF c.op = "nextBytes" THEN c.arg ELSE 4

\* the blocks made while n bytes are taken from position pos
BlocksMade(pos, n) == IF n = 0 THEN 0 ELSE (pos + n - 1) \div 64

\* words 12 and 13 after one more block
Counted(c12, c13) ==
  <<AddW(c12, <<1>>, 4), IF c12 = U32_MAX THEN AddW(c13, <<1>>, 4) ELSE c13>>

CounterStep(g, h, c) ==
  IF BlocksMade(g.pos, TakenBy(c)) = 0
  THEN At(h.state, 12) = At(g.state, 12) /\ At(h.state, 13) = At(g.state, 13)
  ELSE <<At(h.state, 12), At(h.state, 13)>>
         = Counted(At(g.state, 12), At(g.state, 13))

\* C20: in lib ChaCha20 the block counter (state word 12) is 0 for the
\* first block and is incremented by 1 modulo 2^32 after each block;
\* exactly when word 12 wraps from 0xFFFFFFFF to 0 word 13 is incremented
\* by 1, and in no other step does word 13 change.
C20_BlockCounter ==
  [][\A i \in Inst :
       /\ (gen[i].kind = "none" /\ gen'[i].kind = "ChaCha20")
            => (IsZero(At(gen'[i].st.state, 12)) /\ gen'[i].st.pos = 64)
       /\ (gen[i].kind = "ChaCha20" /\ CallOn(i))
            => CounterStep(gen[i].st, gen'[i].st, log'[i][Len(log'[i])])]_vars

\* the block made at word 12 = 0xFFFFFFFF: the words are 0 and 1 after it
C20_Witness ==
  /\ gen[1].kind = "ChaCha20"
  /\ Len(log[1]) = 2
  /\ log[1][1].op = "nextBytes"
  /\ log[1][1].arg = 64
  /\ IsZero(At(gen[1].st.state, 12))
  /\ At(gen[1].st.state, 13) = <<1, 0, 0, 0>>
  /\ gen[1].st.pos = 1

(***************************************************************************)
(* ByteSpec: one generator of src/lib and nextBytes calls on it            *)
(***************************************************************************)
\* 0x9DC84EC2D1452C00n: the first result of XorShift128Plus seeded with it
\* is 0xFFFFFFFFFFFFFDB1
XsHigh == <<0, 44, 69, 209, 194, 78, 200, 157>>

ByteSeeds(kind) ==
  CASE kind = "LCG" -> {Pos(FromInt(12345, 4)), Pos(U32_MAX)}
    [] kind = "MT" -> {Pos(<<42>>)}
    [] kind = "ChaCha20" -> {Key42}
    [] OTHER -> {FromInt(12345, 8), XsHigh}

NewByte ==
  \E kind \in Kinds \ {"LCGm"}, t \in Times :
    \E seed \in {<<v>> : v \in ByteSeeds(kind)} \cup {NoSeed} :
      Construct(1, kind, seed, t, KeyOnes)

MaxCount == 3

TakeBytes == \E count \in 0..MaxCount : CallNextBytes(1, count)

ByteNext == NewByte \/ TakeBytes

ByteSpec == Init /\ [][ByteNext]_vars

(***************************************************************************)
(* nextBytes in units of output                                            *)
(***************************************************************************)
RECURSIVE Stepped(_, _)
\* the object after n calls of next()
Stepped(g, n) == IF n = 0 THEN g ELSE Stepped(GenNext(g).g, n - 1)

\* the number v is the byte b
IsByte(v, b) == ~v.neg /\ v.mag[1] = b /\ IsZeroFrom(v.mag, 2)

\* the keystream bytes a ChaCha20 has handed out
Consumed(st) == 64 * st.state[13][1] + st.pos - 64

\* nextBytes(a) and then nextBytes(b)
InTwo(g, a, b) ==
  LET first == GenNextBytes(g, a)
      second == GenNextBytes(first.g, b)
  IN  [g |-> second.g, val |-> first.val \o second.val]

\* C15: nextBytes(n) advances a generator by exactly n units of output:
\* for LCG, MersenneTwister and XorShift128Plus it performs exactly n state
\* steps and its i-th byte is the value nextInt(256) would return at that
\* step; for ChaCha20 it consumes exactly n keystream bytes.  Hence
\* nextBytes(a) followed by nextBytes(b) yields the same bytes and final
\* state as nextBytes(a+b), and nextBytes(0) leaves the state unchanged.
C15_BytesAdvance ==
  [][\A i \in Inst :
       (CallOn(i) /\ log'[i][Len(log'[i])].op = "nextBytes")
         => LET c == log'[i][Len(log'[i])]
                n == c.arg
            IN  /\ Len(c.val) = n
                /\ gen[i].kind # "ChaCha20"
                     => /\ gen'[i] = Stepped(gen[i], n)
                        /\ \A k \in 1..n :
                             IsByte(GenNextInt(Stepped(gen[i], k - 1),
                                               Pos(<<0, 1>>)).val, c.val[k])
                /\ gen[i].kind = "ChaCha20"
                     => Consumed(gen'[i].st) = Consumed(gen[i].st) + n
                /\ \A a \in 0..n :
                     InTwo(gen[i], a, n - a) = [g |-> gen'[i], val |-> c.val]
                /\ (n = 0 => gen'[i] = gen[i])]_vars

(***************************************************************************)
(* Entropy: the pool of src/lib                                            *)
(***************************************************************************)
\* private poolSize = 256
POOL_SIZE == 256

\* byte & 0xFF for an integer byte
LowByte(byte) == byte % 256

\* addEntropy that never evicts
AddEntropyKeep(pool, byte) == Append(pool, LowByte(byte))

\* addEntropy(byte): push(byte & 0xFF); if (length > poolSize) shift()
AddEntropy(pool, byte) ==
  IF Len(pool) + 1 > POOL_SIZE THEN Tail(Append(pool, LowByte(byte)))
  ELSE Append(pool, LowByte(byte))

\* the k-th value of collectTiming() and of collectMathRandom() in a call
\* whose clock and Math.random behave as src: both are bytes
Timing(src, k) == (src * (k + 1)) % 256

MathRandom(src, k) == (src + 7 * k) % 256

\* the k-th addEntropy of the loop: collectTiming() and
\* collectMathRandom() in turn
Fresh(src, k) == IF k % 2 = 0 THEN Timing(src, k \div 2) ELSE MathRandom(src, k \div 2)

RECURSIVE CollectLoop(_, _, _, _)
\* for (i = 0; i < 16; i++) { addEntropy(collectTiming());
\*                            addEntropy(collectMathRandom()) }
\* as the addEntropy calls lo..hi-1 of its 32
CollectLoop(pool, src, lo, hi) ==
  IF lo >= hi \/ Len(pool) > POOL_SIZE THEN pool
  ELSE IF hi = lo + 1 THEN AddEntropy(pool, Fresh(src, lo))
  ELSE CollectLoop(CollectLoop(pool, src, lo, (lo + hi) \div 2),
                   src, (lo + hi) \div 2, hi)

Collect(pool, src) == CollectLoop(pool, src, 0, 32)

\* a ^ b for integers below 2^24
XorInt(a, b) ==
  LET x == XorW(FromInt(a, 3), FromInt(b, 3), 3)
  IN  x[1] + 256 * x[2] + 65536 * x[3]

\* mixed ^= pool[j] * (j + i + 1); mixed = (mixed * 31 + 17) & 0xFF
MixOne(pool, i, j, mixed) == (XorInt(mixed, pool[j + 1] * (j + i + 1)) * 31 + 17) % 256

RECURSIVE MixLoop(_, _, _, _, _)
\* the loop over j in lo..hi-1
MixLoop(pool, i, lo, hi, mixed) ==
  IF lo >= hi \/ mixed < 0 THEN mixed
  ELSE IF hi = lo + 1 THEN MixOne(pool, i, lo, mixed)
  ELSE MixLoop(pool, i, (lo + hi) \div 2, hi,
               MixLoop(pool, i, lo, (lo + hi) \div 2, mixed))

\* result[i] = mixed ^ this.collectTiming(), the 17th and later timings
Extract(pool, src, i) == XorInt(MixLoop(pool, i, 0, Len(pool), 0), Timing(src, 16 + i))

\* getBytes(count): the pool after the call and the bytes returned
GetBytes(pool, count, src) ==
  [pool |-> Collect(pool, src),
   val  |-> Tup([i \in 1..count |-> Extract(Collect(pool, src), src, i - 1)])]

EntropyObject(pool) ==
  [kind |-> "Entropy", arg |-> NoSeed, born |-> << >>, st |-> [pool |-> pool]]

RECURSIVE Gathered(_, _)
\* the pool after n calls of getBytes(0) on a new object
Gathered(n, src) == IF n = 0 THEN << >> ELSE GetBytes(Gathered(n - 1, src), 0, src).pool

\* calls on one Entropy object
MaxPoolCalls == 2

EntropyInit ==
  /\ gen \in {[i \in Inst |-> IF i = 1 THEN EntropyObject(Gathered(n, 3)) ELSE NoGen] :
                n \in {0, 7, 8}}
  /\ log = [i \in Inst |-> << >>]
  /\ StatIdle

CallAddEntropy ==
  \E byte \in {-1, 255, 256, 300} :
    /\ Len(log[1]) < MaxPoolCalls
    /\ gen' = [gen EXCEPT ![1].st.pool = AddEntropy(@, byte)]
    /\ log' = [log EXCEPT ![1] = Append(@, Returned("addEntropy", byte, << >>))]
    /\ UNCHANGED <<data, calls>>

CallGetBytes ==
  \E count \in {0, 2}, src \in {5, 255} :
    /\ Len(log[1]) < MaxPoolCalls
    /\ gen' = [gen EXCEPT ![1].st.pool = GetBytes(@, count, src).pool]
    /\ log' = [log EXCEPT ![1] = Append(@, Returned("getBytes", count,
                                          GetBytes(gen[1].st.pool, count, src).val))]
    /\ UNCHANGED <<data, calls>>

EntropyNext == CallAddEntropy \/ CallGetBytes

EntropySpec == EntropyInit /\ [][EntropyNext]_vars

PoolOf(i) == gen[i].st.pool

PoolBounded(pool) ==
  /\ Len(pool) <= POOL_SIZE
  /\ \A k \in 1..Len(pool) : pool[k] \in 0..255

\* C21: the Entropy pool never holds more than 256 bytes and every stored
\* entry is in 0..255, after any sequence of addEntropy and getBytes calls;
\* addEntropy on a full pool removes exactly the oldest entry and appends
\* the new byte as the newest, keeping the order of the remaining entries.
C21_PoolBounded ==
  /\ [](gen[1].kind = "Entropy" => PoolBounded(PoolOf(1)))
  /\ [][(CallOn(1) /\ log'[1][Len(log'[1])].op = "addEntropy"
           /\ Len(PoolOf(1)) = POOL_SIZE)
          => /\ Len(gen'[1].st.pool) = POOL_SIZE
             /\ \A k \in 1..(POOL_SIZE - 1) : gen'[1].st.pool[k] = PoolOf(1)[k + 1]
             /\ gen'[1].st.pool[POOL_SIZE]
                  = LowByte(log'[1][Len(log'[1])].arg)]_vars

\* a pool filled by getBytes, then addEntropy(300): the byte 44 is the newest
C21_Witness ==
  /\ gen[1].kind = "Entropy"
  /\ Len(log[1]) = 2
  /\ log[1][1].op = "getBytes"
  /\ log[1][2].op = "addEntropy"
  /\ log[1][2].arg = 300
  /\ Len(PoolOf(1)) = POOL_SIZE
  /\ PoolOf(1)[POOL_SIZE] = 44

(***************************************************************************)
(* TripSpec: two lib LCG objects g (1) and h (2), draws on both and        *)
(* h.setState(g.getState())                                                *)
(***************************************************************************)
\* calls on one object
MaxTripCalls == 3

\* seeds of g: 12345, 2^32 - 1, -1, and none (the time as a signed integer)
TripSeeds ==
  {<<Pos(FromInt(12345, 4))>>, <<Pos(U32_MAX)>>, <<Num(TRUE, <<1>>)>>, NoSeed}

NewTrip ==
  \/ \E seed \in TripSeeds : Construct(1, "LCG", seed, PairTime, NoSeed)
  \/ \E seed \in {<<Pos(Zeros(4))>>, NoSeed} : Construct(2, "LCG", seed, PairTime, NoSeed)

DrawTrip ==
  \E i \in Inst :
    /\ gen[i].kind = "LCG"
    /\ Len(log[i]) < MaxTripCalls
    /\ Commit(i, "next", << >>, GenNext(gen[i]))
    /\ UNCHANGED <<data, calls>>

\* h.setState(g.getState()); getState returns this.state
CopyTrip ==
  /\ gen[1].kind = "LCG" /\ gen[2].kind = "LCG"
  /\ Len(log[1]) < MaxTripCalls /\ Len(log[2]) < MaxTripCalls
  /\ gen' = [gen EXCEPT ![2].st = [state |-> LCGSetState(gen[1].st.state)]]
  /\ log' = [log EXCEPT ![1] = Append(@, Returned("getState", << >>, gen[1].st.state)),
                        ![2] = Append(@, Returned("setState", gen[1].st.state, << >>))]
  /\ UNCHANGED <<data, calls>>

TripNext == NewTrip \/ DrawTrip \/ CopyTrip

TripSpec == Init /\ [][TripNext]_vars

\* the entries from..to of l are all calls of next()
AllNext(l, from, to) == \A k \in from..to : l[k].op = "next"

\* entry q of h's log sets the state that entry p of g's log returned
Copied(p, q) ==
  /\ log[1][p].op = "getState"
  /\ log[2][q].op = "setState"
  /\ log[2][q].arg = log[1][p].val

MaxSeedCalls == 4

\* both objects are built, the first one first, before either is called
ReseedOpen ==
  /\ gen[1].kind = "MT" /\ gen[2].kind = "MT"
  /\ Len(log[1]) + Len(log[2]) < MaxSeedCalls

NewReseed ==
  \/ \E s \in {Pos(FromInt(5489, 4)), Pos(<<1>>)} :
       Construct(1, "MT", <<s>>, PairTime, NoSeed)
  \/ gen[1].kind = "MT" /\ Construct(2, "MT", <<Pos(<<42>>)>>, PairTime, NoSeed)

DrawReseed ==
  \E i \in Inst :
    /\ gen[i].kind = "MT"
    /\ ReseedOpen
    /\ Commit(i, "next", << >>, GenNext(gen[i]))
    /\ UNCHANGED <<data, calls>>

\* mt.seed(42)
CallSeed ==
  \E s \in {Pos(<<42>>)} :
    /\ gen[1].kind = "MT"
    /\ ReseedOpen
    /\ Commit(1, "seed", s, [g |-> [gen[1] EXCEPT !.st = MTReseed(@, s)], val |-> << >>])
    /\ UNCHANGED <<data, calls>>

ReseedNext == NewReseed \/ DrawReseed \/ CallSeed

ReseedSpec == Init /\ [][ReseedNext]_vars

\* C23: MersenneTwister.seed(s) fully resets the generator: called on an
\* instance in any reachable state (any number of prior draws, any prior
\* seed), it makes the following output sequence identical to that of a
\* freshly constructed MersenneTwister(s).
C23_SeedResets ==
  \A q \in 1..Len(log[1]) :
    (log[1][q].op = "seed" /\ gen[2].kind = "MT" /\ gen[2].arg = <<log[1][q].arg>>)
      => \A k \in 1..MaxSeedCalls :
           (/\ q + k <= Len(log[1])
            /\ k <= Len(log[2])
            /\ AllNext(log[1], q + 1, q + k))
             => log[1][q + k].val = log[2][k].val

\* one draw, then seed(42), then a draw: the first draw of a new
\* MersenneTwister(42)
C23_Witness ==
  /\ Len(log[1]) = 3
  /\ log[1][1].op = "next"
  /\ log[1][2].op = "seed" /\ log[1][2].arg = Pos(<<42>>)
  /\ log[1][3].op = "next"
  /\ gen[2].kind = "MT" /\ gen[2].arg = <<Pos(<<42>>)>>
  /\ Len(log[2]) >= 1
  /\ log[1][3].val = log[2][1].val
  /\ log[1][3].val # log[1][1].val

(***************************************************************************)
(* randomInt and shuffle of src/lib                                        *)
(***************************************************************************)
RECURSIVE ModFrom(_, _, _, _)
\* (b[1] + 256 b[2] + ... ) % max, from the highest byte k down
ModFrom(b, k, max, r) ==
  IF k = 0 THEN r ELSE ModFrom(b, k - 1, max, (r * 256 + b[k]) % max)

\* randomInt(max) when randomBytes(4) gives bytes:
\* ((bytes[0] | bytes[1] << 8 | bytes[2] << 16 | bytes[3] << 24) >>> 0) % max
RandomInt(bytes, max) == ModFrom(bytes, 4, max, 0)

\* array[i] = array[j] alone
SwapLost(array, i, j) == [array EXCEPT ![i + 1] = array[j + 1]]

\* [array[i], array[j]] = [array[j], array[i]]
Swap(array, i, j) == [array EXCEPT ![i + 1] = array[j + 1], ![j + 1] = array[i + 1]]

RECURSIVE ShuffleFrom(_, _, _)
\* for (i = ...; i > 0; i--) { j = randomInt(i + 1); swap }: st is the
\* array and the indices chosen so far, rnd[i] the random bytes of step i
ShuffleFrom(st, i, rnd) ==
  IF i <= 0 THEN st
  ELSE ShuffleFrom([array |-> Swap(st.array, i, RandomInt(rnd[i], i + 1)),
                    picks |-> Append(st.picks, RandomInt(rnd[i], i + 1))],
                   i - 1, rnd)

\* shuffle(array)
Shuffle(array, rnd) ==
  ShuffleFrom([array |-> array, picks |-> << >>], Len(array) - 1, rnd)

(***************************************************************************)
(* ShuffleSpec: shuffle on one array, again and again                      *)
(***************************************************************************)
MaxShuffleCalls == 2

ShuffleArrays == {<< >>, <<42>>, <<1, 2>>, <<1, 1, 2>>, <<1, 2, 3, 4>>}

\* what randomBytes(4) may give
RandomWords == {<<0, 0, 0, 0>>, <<1, 0, 0, 0>>, <<255, 255, 255, 255>>}

ShuffleInit ==
  /\ GenInit
  /\ data \in {[top |-> FALSE, xs |-> a] : a \in ShuffleArrays}
  /\ calls = << >>

\* shuffle(data): the array is changed in place and returned
CallShuffle ==
  \E rnd \in [1..(Len(data.xs) - 1) -> RandomWords] :
    /\ Len(calls) < MaxShuffleCalls
    /\ data' = [data EXCEPT !.xs = Shuffle(data.xs, rnd).array]
    /\ calls' = Append(calls, [of |-> "entropy", op |-> "shuffle", arg |-> data.xs,
                               threw |-> "none", val |-> Shuffle(data.xs, rnd).array,
                               picks |-> Shuffle(data.xs, rnd).picks])
    /\ UNCHANGED <<gen, log>>

ShuffleNext == CallShuffle

ShuffleSpec == ShuffleInit /\ [][ShuffleNext]_vars

\* the k-th index chosen is for step i = Len - k
PicksInRange(c) ==
  \A k \in 1..Len(c.picks) : 0 <= c.picks[k] /\ c.picks[k] <= Len(c.arg) - k

\* C24: shuffle(array) returns the same array object holding a permutation
\* of its original elements (same length and same multiset of elements) for
\* every outcome of the random index choices; every index j chosen at step
\* i satisfies 0 <= j <= i; empty and single-element arrays are left
\* unchanged.
C24_ShufflePermutes ==
  /\ \A k \in 1..Len(calls) :
       /\ IsPermutation(calls[k].arg, calls[k].val)
       /\ PicksInRange(calls[k])
       /\ Len(calls[k].arg) <= 1 => calls[k].val = calls[k].arg
  /\ Len(calls) > 0 => data.xs = calls[Len(calls)].val

\* [1, 2, 3, 4] with the random words 2^32 - 1, 1, 2^32 - 1 for i = 3, 2, 1
C24_Witness ==
  /\ Len(calls) = 1
  /\ calls[1].arg = <<1, 2, 3, 4>>
  /\ calls[1].picks = <<3, 1, 1>>
  /\ calls[1].val = <<1, 3, 2, 4>>
  /\ data.xs = <<1, 3, 2, 4>>

(***************************************************************************)
(* CursorSpec: a MersenneTwister that is new, or has been drawn from 1,    *)
(* 623 or 624 times, and calls on it                                       *)
(***************************************************************************)
CursorSeeds == {Pos(<<42>>), Pos(FromInt(5489, 4))}

\* the object built with seed s after d draws, 1 <= d <= 624: the first
\* draw twisted the seeded words, every draw moved the cursor by one
MtForward(s, d) ==
  [kind |-> "MT", arg |-> <<s>>, born |-> PairTime,
   st |-> [mt |-> MTTwist(MTSeed(s)), index |-> d]]

CursorInit ==
  /\ gen \in {[i \in Inst |-> NoGen]}
               \cup {[i \in Inst |-> IF i = 1 THEN MtForward(s, d) ELSE NoGen] :
                       s \in CursorSeeds, d \in {1, MT_N - 1, MT_N}}
  /\ log = [i \in Inst |-> << >>]
  /\ StatIdle

NewCursor == \E s \in CursorSeeds : Construct(1, "MT", <<s>>, PairTime, NoSeed)

DrawCursor == gen[1].kind = "MT" /\ CallNext(1)

DrawIntCursor == gen[1].kind = "MT" /\ CallNextInt(1, Pos(<<10>>))

DrawBytesCursor == gen[1].kind = "MT" /\ CallNextBytes(1, 2)

CursorNext == NewCursor \/ DrawCursor \/ DrawIntCursor \/ DrawBytesCursor

CursorSpec == CursorInit /\ [][CursorNext]_vars

(***************************************************************************)
(* The cursor of MersenneTwister                                           *)
(***************************************************************************)
\* the draws the call c makes
DrawsBy(c) == IF c.op = "nextBytes" THEN c.arg ELSE 1

RECURSIVE Drawn(_, _)
\* words and cursor after n draws: a draw that finds the cursor at 624
\* twists and restarts at 0, and every draw moves the cursor by one
Drawn(st, n) ==
  IF n = 0 THEN st
  ELSE Drawn([mt |-> IF st.index = MT_N THEN MTTwist(st.mt) ELSE st.mt,
              index |-> (IF st.index = MT_N THEN 0 ELSE st.index) + 1], n - 1)

\* C25: in MersenneTwister the index cursor is in [0, 624] in every state
\* after construction; each next() increments it by exactly one; the twist
\* (recomputing all 624 words and resetting the cursor to 0) runs exactly
\* when a draw finds the cursor at 624, i.e. before draws 1, 625, 1249, ...
\* and at no other draw.
C25_Cursor ==
  /\ [](gen[1].kind = "MT" => gen[1].st.index \in 0..MT_N)
  /\ [][(gen[1].kind = "none" /\ gen'[1].kind = "MT") => gen'[1].st.index = MT_N]_vars
  /\ [][(gen[1].kind = "MT" /\ CallOn(1))
          => LET after == Drawn([mt |-> gen[1].st.mt, index |-> gen[1].st.index],
                                DrawsBy(log'[1][Len(log'[1])]))
             IN  gen'[1].st.mt = after.mt /\ gen'[1].st.index = after.index]_vars

\* draw 624 leaves the cursor at 624 and the words as they were; draw 625
\* twists them and leaves the cursor at 1
C25_Witness ==
  /\ gen[1].kind = "MT"
  /\ Len(log[1]) = 2
  /\ log[1][1].op = "next" /\ log[1][2].op = "next"
  /\ gen[1].st.index = 1
  /\ gen[1].st.mt # MTTwist(MTSeed(gen[1].arg[1]))

(***************************************************************************)
(* BufferSpec: a new ChaCha20 and draws from it                            *)
(***************************************************************************)
NewBuffer ==
  \E key \in {Key42, KeyOnes}, t \in Times : Construct(1, "ChaCha20", <<key>>, t, NoSeed)

DrawBuffer == gen[1].kind = "ChaCha20" /\ CallNext(1)

DrawBytesBuffer ==
  \E count \in {0, 1, 60, 64} : gen[1].kind = "ChaCha20" /\ CallNextBytes(1, count)

BufferNext == NewBuffer \/ DrawBuffer \/ DrawBytesBuffer

BufferSpec == Init /\ [][BufferNext]_vars

(***************************************************************************)
(* The buffer cursor of ChaCha20                                           *)
(***************************************************************************)
RECURSIVE TakenIn(_, _)
\* the keystream bytes taken by the first k calls of the log l
TakenIn(l, k) == IF k = 0 THEN 0 ELSE TakenIn(l, k - 1) + TakenBy(l[k])

\* ceil(n / 64)
BlocksFor(n) == (n + 63) \div 64

\* the cursor after n bytes
CursorFor(n) == IF n = 0 THEN 64 ELSE ((n - 1) % 64) + 1

\* the bytes a call hands out from cursor pos on: the rest of the buffer,
\* then the buffer of the block it made, in order
Handed(old, new, pos, n) ==
  IF pos + n <= 64 THEN SubSeq(old, pos + 1, pos + n)
  ELSE SubSeq(old, pos + 1, 64) \o SubSeq(new, 1, pos + n - 64)

\* C26: in ChaCha20 the buffer cursor is in [0, 64] in every reachable state
\* and starts at 64; nextByte runs the block function exactly when the
\* cursor is 64 and otherwise only advances the cursor by one, so after n
\* bytes have been drawn exactly ceil(n/64) blocks have been generated and
\* no keystream byte is returned twice or skipped.
C26_BufferCursor ==
  /\ [](gen[1].kind = "ChaCha20"
          => /\ gen[1].st.pos \in 0..64
             /\ gen[1].st.pos = CursorFor(TakenIn(log[1], Len(log[1])))
             /\ At(gen[1].st.state, 12)
                  = FromInt(BlocksFor(TakenIn(log[1], Len(log[1]))), 4))
  /\ [][(gen[1].kind = "ChaCha20" /\ CallOn(1) /\ log'[1][Len(log'[1])].op = "nextBytes")
          => /\ log'[1][Len(log'[1])].val
                  = Handed(gen[1].st.buffer, gen'[1].st.buffer, gen[1].st.pos,
                           log'[1][Len(log'[1])].arg)
             /\ BlocksMade(gen[1].st.pos, log'[1][Len(log'[1])].arg) = 0
                  => gen'[1].st.buffer = gen[1].st.buffer]_vars

\* 60 bytes, then 64: the second call takes the last 4 bytes of the first
\* block and the first 60 of the second
C26_Witness ==
  /\ gen[1].kind = "ChaCha20"
  /\ Len(log[1]) = 2
  /\ log[1][1].op = "nextBytes" /\ log[1][1].arg = 60
  /\ log[1][2].op = "nextBytes" /\ log[1][2].arg = 64
  /\ gen[1].st.pos = 60
  /\ At(gen[1].st.state, 12) = <<2, 0, 0, 0>>
  /\ SubSeq(log[1][2].val, 5, 64) = SubSeq(gen[1].st.buffer, 1, 60)

(***************************************************************************)
(* ChiSpec: Stats.chiSquare on one data set with 2, 5 and 10 buckets       *)
(***************************************************************************)
MaxChiCalls == 2

\* a values 0 followed by b values 0.5, as 256ths
Skew(a, b) == Tup([i \in 1..(a + b) |-> IF i <= a THEN 0 ELSE 128])

ChiData ==
  {Skew(15, 5), Skew(10, 10), Skew(5, 15), Skew(20, 0),
   Skew(12, 8), Skew(14, 6), Skew(16, 4), Skew(11, 9)}

ChiInit ==
  /\ GenInit
  /\ data \in {[top |-> FALSE, xs |-> d] : d \in ChiData}
  /\ calls = << >>

\* Stats.chiSquare(data, buckets)
CallChiSquare ==
  \E buckets \in {2, 5, 10} :
    /\ Len(calls) < MaxChiCalls
    /\ calls' = Append(calls, [of |-> "Stats", op |-> "chiSquare", arg |-> buckets,
                               threw |-> "none", val |-> LibChiSquare(data, buckets)])
    /\ UNCHANGED <<gen, log, data>>

ChiNext == CallChiSquare

ChiSpec == ChiInit /\ [][ChiNext]_vars

\* the 95% critical values of chi-square for df = 1..9, in thousandths
\* (16.92 for df = 9)
Critical95 == <<3841, 5991, 7815, 9488, 11070, 12592, 14067, 15507, 16920>>

\* the statistic of data in b buckets, sum / (b * n), is below the critical
\* value for df = b - 1
Below95(xs, b) ==
  1000 * ChiSum(LibCounts(xs, b), Len(xs), 1, 0) < Critical95[b - 1] * b * Len(xs)

\* C27: Stats.chiSquare(data, buckets) reports pass exactly when the
\* statistic is below the 95% chi-square critical value for
\* df = buckets - 1, for every buckets value the caller passes (16.92 being
\* the value for buckets = 10).
C27_ChiCritical ==
  \A k \in 1..Len(calls) :
    calls[k].op = "chiSquare" => (calls[k].val.pass <=> Below95(data.xs, calls[k].arg))

(***************************************************************************)
(* PureSpec: the statistics functions of both modules called on one        *)
(* array, which is the caller's                                            *)
(***************************************************************************)
MaxPureCalls == 2

\* the caller's array after a call that sorted it in place: data.sort(...)
ArgAfterSorted(op, d) ==
  IF op \in {"median", "runsTest"} THEN [d EXCEPT !.xs = SortAsc(@)] ELSE d

\* the caller's array after the call op(data): median and runsTest sort
\* [...data], a new array, and no function assigns to data
ArgAfter(op, d) == d

PureCalls ==
  {[of |-> m, op |-> op] : m \in Modules, op \in {"mean", "variance", "stdDev", "runsTest"}}
    \cup {[of |-> "Statistics", op |-> "median"],
          [of |-> "Statistics", op |-> "chiSquareUniformity"],
          [of |-> "Stats", op |-> "chiSquare"],
          [of |-> "Stats", op |-> "entropy"],
          [of |-> "Statistics", op |-> "shannonEntropy"],
          [of |-> "Stats", op |-> "assess"]}

\* what the call f(d) returns
PureVal(f, d) ==
  CASE f.op = "mean" -> Mean(d)
    [] f.op = "variance" -> Variance(d)
    [] f.op = "stdDev" -> StdDev(d)
    [] f.op = "median" -> Median(d)
    [] f.op = "runsTest" -> IF f.of = "Stats" THEN LibRunsTest(d) ELSE RunsTest(d)
    [] f.op = "chiSquareUniformity" -> ChiSquareUniformity(d, 10)
    [] f.op = "chiSquare" -> LibChiSquare(d, 10)
    [] f.op \in {"entropy", "shannonEntropy"} -> Entropy(Bytes(d.xs))
    [] OTHER -> Assess(d)

\* lengths and frequencies are powers of two, as Log2 takes them
PureData == {<<200, 3, 150, 7, 90, 3, 60, 5>>, <<9, 1, 8, 2>>}

PureInit ==
  /\ GenInit
  /\ data \in {[top |-> FALSE, xs |-> xs] : xs \in PureData}
  /\ calls = << >>

CallPure ==
  \E f \in PureCalls :
    /\ Len(calls) < MaxPureCalls
    /\ calls' = Append(calls, [of |-> f.of, op |-> f.op, arg |-> data.xs,
                               threw |-> "none", val |-> PureVal(f, data)])
    /\ data' = ArgAfter(f.op, data)
    /\ UNCHANGED <<gen, log>>

PureNext == CallPure

PureSpec == PureInit /\ [][PureNext]_vars

FixedWords(state) == SubSeq(state, 1, 12) \o SubSeq(state, 15, 16)

\* the words the constructor writes for the key and the clock reading t
BuiltWords(key, t) == FixedWords(CCInitKey(key, t).state)

\* C29: in lib ChaCha20, after construction no operation changes the
\* constant words 0-3, the key words 4-11 or words 14-15: a block changes
\* only word 12 (and word 13 when word 12 wraps to 0), the 64-byte buffer
\* and the cursor; the rounds work on a copy, so the words stay those the
\* constructor wrote.
C29_WordsStay ==
  /\ [](\A i \in Inst :
          gen[i].kind = "ChaCha20"
            => FixedWords(gen[i].st.state) = BuiltWords(gen[i].arg[1], gen[i].born))
  /\ [][\A i \in Inst :
          (gen[i].kind = "ChaCha20" /\ CallOn(i))
            => /\ FixedWords(gen'[i].st.state) = FixedWords(gen[i].st.state)
               /\ (At(gen'[i].st.state, 13) # At(gen[i].st.state, 13)
                     => (IsZero(At(gen'[i].st.state, 12))
                           /\ At(gen[i].st.state, 12) = U32_MAX))
               /\ (At(gen'[i].st.state, 12) = At(gen[i].st.state, 12)
                     => (gen'[i].st.buffer = gen[i].st.buffer
                           /\ gen'[i].st.pos >= gen[i].st.pos))]_vars

\* a call has made the block at word 12 = 0xFFFFFFFF: words 12 and 13 are
\* 0 and 1, four bytes of the new buffer are taken, the other words are as
\* built
C29_Witness ==
  /\ gen[1].kind = "ChaCha20"
  /\ Len(log[1]) = 2
  /\ log[1][2].op = "next"
  /\ gen[1].st.pos = 4
  /\ IsZero(At(gen[1].st.state, 12))
  /\ At(gen[1].st.state, 13) = <<1, 0, 0, 0>>
  /\ SubSeq(gen[1].st.state, 1, 4) = <<CC_K0, CC_K1, CC_K2, CC_K3>>
  /\ At(gen[1].st.state, 4) = <<42, 42, 42, 42>>
  /\ gen[1].st.buffer # Zeros(64)

(***************************************************************************)
(* BlockSpec: a lib ChaCha20 and a ChaCha20CSPRNG built from the same key, *)
(* the nonce of the second being the words 13-15 of the first, new or      *)
(* with the 2^32 - 1 blocks before block 0xFFFFFFFF used up, and bytes     *)
(* taken from both                                                         *)
(***************************************************************************)
\* calls on the two objects together
MaxBlockCalls == 2

\* nonce bytes that give the words 13, 14 and 15 of a lib ChaCha20 built
\* at time t
NonceAt(t) == Zeros(4) \o Ext(t, 4) \o ShrW(t, 32, 4)

\* the counter at the last block made and used up: none made, or block
\* 2^32 - 2
BlockCounts == {<< >>, <<254, 255, 255, 255>>}

CsObject(key, nonce, c) ==
  [kind |-> "ChaCha20CSPRNG", arg |-> <<key, nonce>>, born |-> << >>,
   st   |-> IF c = << >> THEN CSNew(key, nonce)
            ELSE [CSGenerateBlock([CSNew(key, nonce) EXCEPT !.counter = Ext(c, 8)])
                    EXCEPT !.bufferIndex = 64]]

LibObject(key, t, c) ==
  IF c = << >> THEN NewGen("ChaCha20", <<key>>, t, NoSeed)
  ELSE [CcObject(key, t, <<c, Zeros(4)>>) EXCEPT !.st.pos = 64]

BlockInit ==
  /\ gen \in {[i \in Inst |-> NoGen]}
               \cup {[i \in Inst |-> IF i = 1 THEN LibObject(Key42, t, c)
                                     ELSE CsObject(Key42, NonceAt(t), c)] :
                       t \in Times, c \in BlockCounts \ {<< >>}}
  /\ log = [i \in Inst |-> << >>]
  /\ StatIdle

NewLib == \E t \in Times : Construct(1, "ChaCha20", <<Key42>>, t, NoSeed)

NewCsprng ==
  \E t \in Times :
    /\ gen[2].kind = "none"
    /\ gen' = [gen EXCEPT ![2] = CsObject(Key42, NonceAt(t), << >>)]
    /\ UNCHANGED <<log, data, calls>>

BlockOpen == Len(log[1]) + Len(log[2]) < MaxBlockCalls

\* the private call of block() or generateBlock(): the 16 words the rounds
\* are run on and the buffer it fills
BlockCall(of, op, state, buffer) ==
  [of |-> of, op |-> op, arg |-> state, threw |-> "none", val |-> buffer]

\* nextBytes(count) on the lib object; it calls block() when the buffer
\* is used up
TakeLib ==
  \E count \in {4, 64} :
    /\ gen[1].kind = "ChaCha20"
    /\ BlockOpen
    /\ Commit(1, "nextBytes", count, GenNextBytes(gen[1], count))
    /\ calls' = IF gen[1].st.pos + count > 64
                THEN Append(calls, BlockCall("ChaCha20", "block", gen[1].st.state,
                                             gen'[1].st.buffer))
                ELSE calls
    /\ UNCHANGED data

\* nextBytes(count) on the ChaCha20CSPRNG object; it calls generateBlock()
\* when the buffer is used up
TakeCsprng ==
  \E count \in {4, 64} :
    LET r == CSNextBytes(gen[2].st, count)
    IN  /\ gen[2].kind = "ChaCha20CSPRNG"
        /\ BlockOpen
        /\ Commit(2, "nextBytes", count, [g |-> [gen[2] EXCEPT !.st = r.g], val |-> r.bytes])
        /\ calls' = IF gen[2].st.bufferIndex + count > 64
                    THEN Append(calls, BlockCall("ChaCha20CSPRNG", "generateBlock",
                                                 CSSetCounter(gen[2].st), r.g.buffer))
                    ELSE calls
        /\ UNCHANGED data

BlockNext == NewLib \/ NewCsprng \/ TakeLib \/ TakeCsprng

BlockSpec == BlockInit /\ [][BlockNext]_vars

(***************************************************************************)
(* The ChaCha20 block on bits                                              *)
(***************************************************************************)
\* the 32 bits of a word, least significant first
WordBits(w) == Tup([i \in 1..32 |-> (w[((i - 1) \div 8) + 1] \div Pow2((i - 1) % 8)) % 2])

\* byte k of a word of bits
BitsByte(b, k) ==
  b[8 * k + 1] + 2 * b[8 * k + 2] + 4 * b[8 * k + 3] + 8 * b[8 * k + 4]
    + 16 * b[8 * k + 5] + 32 * b[8 * k + 6] + 64 * b[8 * k + 7] + 128 * b[8 * k + 8]

RECURSIVE BitsAddFrom(_, _, _, _, _)
\* the sum modulo 2^32, bit by bit with the carry
BitsAddFrom(a, b, i, carry, sum) ==
  IF i > 32 \/ Len(sum) >= 32 \/ carry > 1 THEN sum
  ELSE BitsAddFrom(a, b, i + 1, (a[i] + b[i] + carry) \div 2,
                   Append(sum, (a[i] + b[i] + carry) % 2))

BitsAdd(a, b) == BitsAddFrom(a, b, 1, 0, << >>)

BitsXor(a, b) == Tup([i \in 1..32 |-> (a[i] + b[i]) % 2])

\* rotation to the left: bit i moves to bit i + n
BitsRotl(a, n) == Tup([i \in 1..32 |-> a[((i - 1 - n + 32) % 32) + 1]])

\* a += b; d ^= a; d <<<= n, on the words at a, b and d (counted from 0)
RefThird(x, a, b, d, n) ==
  LET sum == BitsAdd(x[a + 1], x[b + 1])
  IN  [x EXCEPT ![a + 1] = sum, ![d + 1] = BitsRotl(BitsXor(x[d + 1], sum), n)]

\* the quarter round: add, xor, rotate left by 16, 12, 8, 7
RefQuarter(x, q) ==
  RefThird(RefThird(RefThird(RefThird(x, q[1], q[2], q[4], 16),
                             q[3], q[4], q[2], 12),
                    q[1], q[2], q[4], 8),
           q[3], q[4], q[2], 7)

\* columns, then diagonals
RefOrder ==
  <<<<0, 4, 8, 12>>, <<1, 5, 9, 13>>, <<2, 6, 10, 14>>, <<3, 7, 11, 15>>,
    <<0, 5, 10, 15>>, <<1, 6, 11, 12>>, <<2, 7, 8, 13>>, <<3, 4, 9, 14>> >>

RECURSIVE RefQuarters(_, _)
\* R: the quarter rounds k..80, the order of RefOrder repeated
RefQuarters(x, k) ==
  IF k > 8 * CC_ROUNDS \/ Len(x) # 16 THEN x
  ELSE RefQuarters(RefQuarter(x, RefOrder[((k - 1) % 8) + 1]), k + 1)

RECURSIVE RefBytes(_, _, _)
\* the bytes of (S[i] + R(S)[i]) mod 2^32 for i >= k, least significant first
RefBytes(s, r, k) ==
  IF k > 16 THEN << >>
  ELSE LET v == BitsAdd(s[k], r[k])
       IN  <<BitsByte(v, 0), BitsByte(v, 1), BitsByte(v, 2), BitsByte(v, 3)>>
             \o RefBytes(s, r, k + 1)

RefBlock(state) ==
  LET s == Tup([i \in 1..16 |-> WordBits(state[i])])
  IN  RefBytes(s, RefQuarters(s, 1), 1)

\* C30: for the same 16-word input state, lib ChaCha20.block and modules
\* ChaCha20CSPRNG.generateBlock fill the 64-byte buffer with identical
\* bytes, equal to the little-endian serialization of (S[i] + R(S)[i]) mod
\* 2^32 for i = 0..15, where R is 10 double rounds (column quarter-rounds,
\* then diagonal ones) and each quarter-round is add/xor/rotate-left with
\* rotations 16, 12, 8, 7 in that order.
C30_SameBlock ==
  /\ [](\A j, k \in 1..Len(calls) :
          calls[j].arg = calls[k].arg => calls[j].val = calls[k].val)
  /\ [][Len(calls') > Len(calls)
          => calls'[Len(calls')].val = RefBlock(calls'[Len(calls')].arg)]_vars

\* block() and generateBlock() have run on the same 16 words, with the
\* counter word at 0xFFFFFFFF
C30_Witness ==
  /\ Len(calls) = 2
  /\ calls[1].of # calls[2].of
  /\ calls[1].arg = calls[2].arg
  /\ At(calls[1].arg, 12) = U32_MAX
  /\ calls[1].val = calls[2].val
  /\ calls[1].val # Zeros(64)

====
